---- MODULE Spec2Model ----
(***************************************************************************)
(* Front end of the hugorm language: the recursive-descent Parser          *)
(* (src/src/hugorm/parser/parser.rs) and the Visitor                       *)
(* (src/src/hugorm/visitor/visitor.rs).                                    *)
(*                                                                         *)
(* Both are synchronous and single-threaded.  Every function of the        *)
(* source is an operator that threads the mutable fields it touches        *)
(* through a record and returns a result record; `?` is the test           *)
(* `r.st # "ok"` that hands the failing result to the caller with the      *)
(* state as it was when the failure was raised.  The public entry points   *)
(* (parse, set_global, visit, visit_statement) are the actions.            *)
(*                                                                         *)
(* Outcomes: "ok" and "err" are the two values of Result; "panic" is an    *)
(* unwrap/todo!/index abort; "diverge" is a loop whose body maps the       *)
(* parser state to itself while its condition stays true.                  *)
(* Source positions (Pos) are not modelled.                                *)
(***************************************************************************)
EXTENDS Integers, Sequences, FiniteSets, TLC

VARIABLES
    tokens,     \* Parser.tokens: the token sequence handed to Parser::new
    p_st,       \* "ready" before parse is called, then its outcome
    p_err,      \* the message class of the syntax error, "" if none
    p_ast,      \* the statements parse returned (<<>> unless p_st = "ok")
    p_ps,       \* Parser fields index, indent_standard, indent after parse
    p_entry,    \* Parser fields on entry to the call made on the Parser
    ast,        \* the statement sequence handed to the Visitor
    v,          \* Visitor fields and the outcome of the last call
    v_entry,    \* the last call made on the Visitor and its fields on entry
    v_calls     \* number of statements of ast handed to the Visitor so far

vars == <<tokens, p_st, p_err, p_ast, p_ps, p_entry, ast, v, v_entry, v_calls>>

parserVars == <<tokens, p_st, p_err, p_ast, p_ps, p_entry>>
visitorVars == <<ast, v, v_entry, v_calls>>

-----------------------------------------------------------------------------
(* Bounds *)

MaxLen == 3          \* longest free-form token sequence
MaxIndent == 3       \* largest indentation width of a line
MaxDepth == 2        \* deepest nesting of bodies in a visited statement

-----------------------------------------------------------------------------
(* Tokens.  type is TokenType, lexeme the text, col is slice.0, the        *)
(* 1-based column the token starts at.                                     *)

Tok(type, lexeme, col) == [type |-> type, lexeme |-> lexeme, col |-> col]

EOLLexeme == "\n"

Keywords == {"return", "let", "const", "fun", "interface", "while", "loop",
             "break", "if", "unless", "elif", "else", "nil", "with"}

OperatorLexemes == {"+", "-", "*", "/", "%", "^", "++", "==", "!=", "<", ">",
                    "<=", ">=", "and", "or", "not"}

SymbolLexemes == {"(", ")", "[", "]", "{", "}", ",", ":", "=", "."}

IntLexemes == {"0", "1", "2", "3", "2147483647", "2147483648"}

FloatLexemes == {"1.5"}

BoolLexemes == {"true", "false"}

StrLexemes == {"'a'", "'b'"}

\* The lexer's classification of a lexeme.
TokenTypeOf(lexeme) ==
    IF lexeme = EOLLexeme THEN "EOL"
    ELSE IF lexeme \in Keywords THEN "Keyword"
    ELSE IF lexeme \in OperatorLexemes THEN "Operator"
    ELSE IF lexeme \in SymbolLexemes THEN "Symbol"
    ELSE IF lexeme \in IntLexemes THEN "Int"
    ELSE IF lexeme \in FloatLexemes THEN "Float"
    ELSE IF lexeme \in BoolLexemes THEN "Bool"
    ELSE IF lexeme \in StrLexemes THEN "Str"
    ELSE "Identifier"

\* One source line: the lexemes at columns indent+1, indent+2, ... followed
\* by the line terminator.
RECURSIVE LineTokens(_, _, _)
LineTokens(lexemes, col, i) ==
    IF i > Len(lexemes) THEN <<Tok("EOL", EOLLexeme, col)>>
    ELSE <<Tok(TokenTypeOf(lexemes[i]), lexemes[i], col)>>
             \o LineTokens(lexemes, col + 1, i + 1)

Line(indent, lexemes) == LineTokens(lexemes, indent + 1, 1)

RECURSIVE Lines(_)
Lines(ls) == IF ls = <<>> THEN <<>> ELSE Head(ls) \o Lines(Tail(ls))

-----------------------------------------------------------------------------
(* Operator: precedence, associativity, compound-assignment flag.          *)

NoOperator == [op |-> "none", prec |-> 0]

OperatorFromStr(operator) ==
    CASE operator = "or"  -> [op |-> "Or", prec |-> 0]
      [] operator = "and" -> [op |-> "And", prec |-> 0]
      [] operator = "=="  -> [op |-> "Eq", prec |-> 1]
      [] operator = "!="  -> [op |-> "NEq", prec |-> 1]
      [] operator = "<"   -> [op |-> "Lt", prec |-> 1]
      [] operator = ">"   -> [op |-> "Gt", prec |-> 1]
      [] operator = "<="  -> [op |-> "LtEq", prec |-> 1]
      [] operator = ">="  -> [op |-> "GtEq", prec |-> 1]
      [] operator = "+"   -> [op |-> "Add", prec |-> 2]
      [] operator = "-"   -> [op |-> "Sub", prec |-> 2]
      [] operator = "++"  -> [op |-> "Concat", prec |-> 2]
      [] operator = "*"   -> [op |-> "Mul", prec |-> 3]
      [] operator = "/"   -> [op |-> "Div", prec |-> 3]
      [] operator = "%"   -> [op |-> "Mod", prec |-> 3]
      [] operator = "^"   -> [op |-> "Pow", prec |-> 4]
      [] OTHER            -> NoOperator

IsRightAss(op) == op = "Pow"

IsCompoundable(operator) ==
    operator \in {"+", "-", "*", "/", "%", "^", "++"}

-----------------------------------------------------------------------------
(* Results.  ps is the Parser's mutable fields; val the returned value.    *)

NoVal == <<>>

Ok(ps, val) == [st |-> "ok", ps |-> ps, val |-> val, err |-> ""]
Err(ps, kind) == [st |-> "err", ps |-> ps, val |-> NoVal, err |-> kind]
Panic(ps, kind) == [st |-> "panic", ps |-> ps, val |-> NoVal, err |-> kind]
Diverge(ps, kind) == [st |-> "diverge", ps |-> ps, val |-> NoVal, err |-> kind]

\* Parser::new
NewParser == [index |-> 0, indent_standard |-> 0, indent |-> 0]

-----------------------------------------------------------------------------
(* Cursor primitives.  index is 0-based as in the source; toks is 1-based. *)

remaining(toks, ps) ==
    IF Len(toks) >= ps.index THEN Len(toks) - ps.index ELSE 0

current(toks, ps) ==
    IF ps.index > Len(toks) - 1 THEN toks[Len(toks)] ELSE toks[ps.index + 1]

current_lexeme(toks, ps) == current(toks, ps).lexeme

current_type(toks, ps) == current(toks, ps).type

next(toks, ps) ==
    IF ps.index <= Len(toks)
    THEN Ok([ps EXCEPT !.index = @ + 1], NoVal)
    ELSE Err(ps, "moving outside token stack")

eat(toks, ps) ==
    LET lexeme == current_lexeme(toks, ps)
        r == next(toks, ps)
    IN  IF r.st # "ok" THEN r ELSE Ok(r.ps, lexeme)

eat_lexeme(toks, ps, lexeme) ==
    IF current_lexeme(toks, ps) = lexeme
    THEN eat(toks, ps)
    ELSE Err(ps, "expected lexeme")

eat_type(toks, ps, token_type) ==
    IF current_type(toks, ps) = token_type
    THEN eat(toks, ps)
    ELSE Err(ps, "expected type")

new_line(toks, ps) ==
    IF remaining(toks, ps) > 0
    THEN IF current_lexeme(toks, ps) = EOLLexeme
         THEN next(toks, ps)
         ELSE Err(ps, "expected new line")
    ELSE Ok(ps, NoVal)

RECURSIVE next_newline(_, _)
next_newline(toks, ps) ==
    IF current_lexeme(toks, ps) = EOLLexeme /\ remaining(toks, ps) > 0
    THEN LET r == next(toks, ps)
         IN  IF r.st # "ok" THEN r ELSE next_newline(toks, r.ps)
    ELSE Ok(ps, NoVal)

get_indent(toks, ps) == current(toks, ps).col - 1

is_dedent(toks, ps) ==
    get_indent(toks, ps) < ps.indent /\ current_lexeme(toks, ps) # EOLLexeme

\* The `while current_type() == EOL && remaining() != 0` loop that opens
\* parse_statement.
RECURSIVE skip_eol(_, _)
skip_eol(toks, ps) ==
    IF current_type(toks, ps) = "EOL" /\ remaining(toks, ps) # 0
    THEN LET r == next(toks, ps)
         IN  IF r.st # "ok" THEN r ELSE skip_eol(toks, r.ps)
    ELSE Ok(ps, NoVal)

-----------------------------------------------------------------------------
(* AST.  Option<T> is a sequence of length 0 or 1.                         *)

IntE(n) == [node |-> "Int", int |-> n]
FloatE(lexeme) == [node |-> "Float", float |-> lexeme]
StrE(s) == [node |-> "Str", str |-> s]
BoolE(b) == [node |-> "Bool", bool |-> b]
IdentifierE(n) == [node |-> "Identifier", name |-> n]
NilE == [node |-> "Nil"]
EOFE == [node |-> "EOF"]
EmptyE == [node |-> "Empty"]
NegE(e) == [node |-> "Neg", expr |-> e]
NotE(e) == [node |-> "Not", expr |-> e]
BinaryE(l, op, r) == [node |-> "Binary", left |-> l, op |-> op, right |-> r]
CallE(callee, args) == [node |-> "Call", callee |-> callee, args |-> args]
ArrayE(content) == [node |-> "Array", content |-> content]
DictE(pairs) == [node |-> "Dict", pairs |-> pairs]
AnonFunctionE(name, params, body) ==
    [node |-> "AnonFunction", name |-> name, params |-> params, body |-> body]
WithE(e, w) == [node |-> "With", expr |-> e, with |-> w]

ExpressionS(e) == [node |-> "Expression", expr |-> e]
DeclarationS(name, init) == [node |-> "Declaration", name |-> name, init |-> init]
AssignmentS(target, value) ==
    [node |-> "Assignment", target |-> target, value |-> value]
BlockS(body) == [node |-> "Block", body |-> body]
ReturnS(ret) == [node |-> "Return", ret |-> ret]
FunctionS(name, params, body) ==
    [node |-> "Function", name |-> name, params |-> params, body |-> body]
InterfaceS(name, body) == [node |-> "Interface", name |-> name, body |-> body]
WhileS(cond, body) == [node |-> "While", cond |-> cond, body |-> body]
IfS(cond, body, else_) ==
    [node |-> "If", cond |-> cond, body |-> body, else_ |-> else_]
BreakS == [node |-> "Break"]
ConstFunctionS(fun) == [node |-> "ConstFunction", fun |-> fun]

\* One (Option<Expression>, Vec<Statement>) element of an If's clause list.
Clause(cond, body) == [cond |-> cond, body |-> body]

-----------------------------------------------------------------------------
(* str::parse::<i32> on a lexeme of decimal digits: the digits are        *)
(* accumulated most significant first with checked multiply and checked    *)
(* add, and the result is Err (here <<>>) as soon as one of them would     *)
(* leave the 32-bit signed range.                                          *)

I32Max == 2147483647

DecimalDigits(lexeme) ==
    CASE lexeme = "0" -> <<0>>
      [] lexeme = "1" -> <<1>>
      [] lexeme = "2" -> <<2>>
      [] lexeme = "3" -> <<3>>
      [] lexeme = "2147483647" -> <<2, 1, 4, 7, 4, 8, 3, 6, 4, 7>>
      [] lexeme = "2147483648" -> <<2, 1, 4, 7, 4, 8, 3, 6, 4, 8>>

RECURSIVE checked_digits(_, _, _)
checked_digits(digits, i, acc) ==
    IF i > Len(digits) THEN <<acc>>
    ELSE IF acc > I32Max \div 10 THEN <<>>
    ELSE IF acc * 10 > I32Max - digits[i] THEN <<>>
    ELSE checked_digits(digits, i + 1, acc * 10 + digits[i])

ParseI32(lexeme) == checked_digits(DecimalDigits(lexeme), 1, 0)

-----------------------------------------------------------------------------
(* Expressions *)

\* A call of one Parser method by another is written
\* ParserCall("method", <<arguments>>); ParserCall, defined after the
\* methods, applies the method of that name.
RECURSIVE ParserCall(_, _)


\* `if current_lexeme() == "\n" { next()?; parse_body()? }
\*  else { vec!(parse_statement()?) }`; val is the body, and single tells
\* which arm ran.
parse_branch(toks, ps) ==
    IF current_lexeme(toks, ps) = EOLLexeme
    THEN LET r == next(toks, ps)
         IN  IF r.st # "ok" THEN r
             ELSE LET b == ParserCall("parse_body", <<toks, r.ps>>)
                  IN  IF b.st # "ok" THEN b
                      ELSE Ok(b.ps, [body |-> b.val, single |-> FALSE])
    ELSE LET s == ParserCall("parse_statement", <<toks, ps>>)
         IN  IF s.st # "ok" THEN s
             ELSE Ok(s.ps, [body |-> <<s.val>>, single |-> TRUE])

\* The `while current_lexeme() == ","` loop of a parameter list.
parse_params_rest(toks, ps, params) ==
    IF current_lexeme(toks, ps) = ","
    THEN LET r1 == next(toks, ps)
         IN  IF r1.st # "ok" THEN r1 ELSE
             LET r2 == next_newline(toks, r1.ps)
             IN  IF r2.st # "ok" THEN r2 ELSE
                 LET r3 == eat_type(toks, r2.ps, "Identifier")
                 IN  IF r3.st # "ok" THEN r3
                     ELSE ParserCall("parse_params_rest", <<toks, r3.ps, Append(params, r3.val)>>)
    ELSE Ok(ps, params)

\* `( p1, p2, ... ) :` and the body, shared by `fun` statements and
\* anonymous functions; val is [params, body].
parse_signature(toks, ps) ==
    LET r1 == eat_lexeme(toks, ps, "(")
    IN  IF r1.st # "ok" THEN r1 ELSE
        LET r2 == next_newline(toks, r1.ps)
        IN  IF r2.st # "ok" THEN r2 ELSE
            LET r3 == IF current_lexeme(toks, r2.ps) # ")"
                      THEN LET f == eat_type(toks, r2.ps, "Identifier")
                           IN  IF f.st # "ok" THEN f
                               ELSE ParserCall("parse_params_rest", <<toks, f.ps, <<f.val>>>>)
                      ELSE Ok(r2.ps, <<>>)
            IN  IF r3.st # "ok" THEN r3 ELSE
                LET r4 == eat_lexeme(toks, r3.ps, ")")
                IN  IF r4.st # "ok" THEN r4 ELSE
                    LET r5 == eat_lexeme(toks, r4.ps, ":")
                    IN  IF r5.st # "ok" THEN r5 ELSE
                        LET r6 == ParserCall("parse_branch", <<toks, r5.ps>>)
                        IN  IF r6.st # "ok" THEN r6
                            ELSE Ok(r6.ps, [params |-> r3.val,
                                            body |-> r6.val.body])

parse_expression(toks, ps) ==
    LET atom == ParserCall("parse_atom", <<toks, ps>>)
    IN  IF atom.st # "ok" THEN atom
        ELSE IF current_type(toks, atom.ps) = "Operator"
             THEN ParserCall("parse_binary", <<toks, atom.ps, atom.val, 0>>)
             ELSE atom

\* A unary operand that ends at the first atom.
unary_operand_atom(toks, ps) == ParserCall("parse_atom", <<toks, ps>>)

\* The operand of unary `-` and `not`: `self.parse_expression()?`
\* (parser.rs:653, 662).
unary_operand(toks, ps) == ParserCall("parse_expression", <<toks, ps>>)

\* The match on the token class in parse_atom.  val is [expr, direct];
\* direct marks the anonymous function's `return Ok(..)`, which skips the
\* postfix step.
atom_primary(toks, ps) ==
    LET token_type == current_type(toks, ps)
        lexeme == current_lexeme(toks, ps)
        Postfixed(r, e) == IF r.st # "ok" THEN r
                           ELSE Ok(r.ps, [expr |-> e, direct |-> FALSE])
        Unary(Node(_)) ==
            LET r1 == next(toks, ps)
            IN  IF r1.st # "ok" THEN r1 ELSE
                LET r2 == unary_operand(toks, r1.ps)
                IN  IF r2.st # "ok" THEN r2 ELSE Postfixed(r2, Node(r2.val))
    IN  CASE token_type = "Int" ->
               LET r == eat(toks, ps)
               IN  IF r.st # "ok" THEN r
                   ELSE IF ParseI32(r.val) = <<>>
                        THEN Panic(r.ps, "unwrap on ParseIntError")
                        ELSE Postfixed(r, IntE(ParseI32(r.val)[1]))
          [] token_type = "Float" ->
               LET r == eat(toks, ps) IN Postfixed(r, FloatE(r.val))
          [] token_type = "Str" ->
               LET r == eat(toks, ps) IN Postfixed(r, StrE(r.val))
          [] token_type = "Bool" ->
               LET r == eat(toks, ps) IN Postfixed(r, BoolE(r.val = "true"))
          [] token_type = "Identifier" ->
               LET r == eat(toks, ps) IN Postfixed(r, IdentifierE(r.val))
          [] token_type = "Operator" ->
               IF lexeme = "-" THEN Unary(NegE)
               ELSE IF lexeme = "not" THEN Unary(NotE)
               ELSE Err(ps, "unexpected operator")
          [] token_type = "Symbol" ->
               IF lexeme = "("
               THEN LET r1 == next(toks, ps)
                    IN  IF r1.st # "ok" THEN r1 ELSE
                        LET r2 == next_newline(toks, r1.ps)
                        IN  IF r2.st # "ok" THEN r2 ELSE
                            IF current_lexeme(toks, r2.ps) = ")"
                               /\ current_type(toks, r2.ps) = "Symbol"
                            THEN Postfixed(next(toks, r2.ps), EmptyE)
                            ELSE LET r3 == ParserCall("parse_expression", <<toks, r2.ps>>)
                                 IN  IF r3.st # "ok" THEN r3 ELSE
                                     Postfixed(eat_lexeme(toks, r3.ps, ")"),
                                               r3.val)
               ELSE IF lexeme = "["
               THEN LET r == ParserCall("parse_block_of", <<toks, ps, "[", "]",
                                            "_parse_expression_comma">>)
                    IN  Postfixed(r, ArrayE(r.val))
               ELSE IF lexeme = "{"
               THEN LET r == ParserCall("parse_block_of", <<toks, ps, "{", "}",
                                            "_parse_definition_comma">>)
                    IN  Postfixed(r, DictE(r.val))
               ELSE Err(ps, "unexpected symbol")
          [] token_type = "Keyword" ->
               IF lexeme = "nil"
               THEN Ok(ps, [expr |-> NilE, direct |-> FALSE])
               ELSE IF lexeme = "fun"
               THEN LET r1 == next(toks, ps)
                    IN  IF r1.st # "ok" THEN r1 ELSE
                        LET name == "<anon-fn $"
                                    \o ToString(remaining(toks, r1.ps)) \o ">"
                            r2 == ParserCall("parse_signature", <<toks, r1.ps>>)
                        IN  IF r2.st # "ok" THEN r2
                            ELSE Ok(r2.ps,
                                    [expr |-> AnonFunctionE(name, r2.val.params,
                                                            r2.val.body),
                                     direct |-> TRUE])
               ELSE Err(ps, "unexpected keyword")
          [] OTHER -> Err(ps, "unexpected token")

parse_atom(toks, ps) ==
    IF remaining(toks, ps) = 0
    THEN Ok(ps, EOFE)
    ELSE LET r == ParserCall("atom_primary", <<toks, ps>>)
         IN  IF r.st # "ok" THEN r
             ELSE IF r.val.direct THEN Ok(r.ps, r.val.expr)
             ELSE IF remaining(toks, r.ps) > 0
                  THEN ParserCall("parse_postfix", <<toks, r.ps, r.val.expr>>)
                  ELSE Ok(r.ps, r.val.expr)

\* The `while !["\n", ")"].contains(..)` loop that collects the arguments
\* of a call.  Nothing but the cursor decides whether the loop goes on, so
\* an iteration that hands the Parser back unchanged repeats for ever.
parse_call_args(toks, ps, args) ==
    IF current_lexeme(toks, ps) \in {EOLLexeme, ")"}
    THEN Ok(ps, args)
    ELSE LET r1 == ParserCall("parse_expression", <<toks, ps>>)
         IN  IF r1.st # "ok" THEN r1 ELSE
             LET r2 == IF current_lexeme(toks, r1.ps) \notin {EOLLexeme, ")"}
                          /\ remaining(toks, r1.ps) > 0
                       THEN LET c == eat_lexeme(toks, r1.ps, ",")
                            IN  IF c.st # "ok" THEN c
                                ELSE next_newline(toks, c.ps)
                       ELSE Ok(r1.ps, NoVal)
             IN  IF r2.st # "ok" THEN r2
                 ELSE IF r2.ps = ps
                      THEN Diverge(ps, "call argument loop")
                      ELSE ParserCall("parse_call_args", <<toks, r2.ps, Append(args, r1.val)>>)

parse_postfix(toks, ps, expression) ==
    LET backup_index == ps.index
        token_type == current_type(toks, ps)
        lexeme == current_lexeme(toks, ps)
    IN  IF remaining(toks, ps) = 0 THEN Ok(ps, expression)
        ELSE IF token_type = "Symbol" /\ lexeme = "("
        THEN LET r1 == next(toks, ps)
             IN  IF r1.st # "ok" THEN r1 ELSE
                 LET r2 == next_newline(toks, r1.ps)
                 IN  IF r2.st # "ok" THEN r2 ELSE
                     LET r3 == IF current_type(toks, r2.ps)
                                   \notin {"Operator", "Keyword"}
                               THEN ParserCall("parse_call_args", <<toks, r2.ps, <<>>>>)
                               ELSE Ok(r2.ps, <<>>)
                     IN  IF r3.st # "ok" THEN r3 ELSE
                         LET r4 == next_newline(toks, r3.ps)
                         IN  IF r4.st # "ok" THEN r4 ELSE
                             LET r5 == eat_lexeme(toks, r4.ps, ")")
                             IN  IF r5.st # "ok" THEN r5
                                 ELSE ParserCall("parse_postfix", <<toks, r5.ps,
                                                    CallE(expression, r3.val)>>)
        ELSE IF token_type = "Symbol" /\ lexeme = "["
        THEN LET r1 == next(toks, ps)
             IN  IF r1.st # "ok" THEN r1 ELSE
                 LET r2 == ParserCall("parse_expression", <<toks, r1.ps>>)
                 IN  IF r2.st # "ok" THEN r2 ELSE
                     LET r3 == eat_lexeme(toks, r2.ps, "]")
                     IN  IF r3.st # "ok" THEN r3
                         ELSE ParserCall("parse_postfix", <<toks, r3.ps,
                                  BinaryE(expression, "Index", r2.val)>>)
        ELSE IF token_type = "Symbol" /\ lexeme = "."
        THEN LET r1 == next(toks, ps)
             IN  IF r1.st # "ok" THEN r1 ELSE
                 LET r2 == eat(toks, r1.ps)
                 IN  IF r2.st # "ok" THEN r2
                     ELSE ParserCall("parse_postfix", <<toks, r2.ps,
                              BinaryE(expression, "Index", StrE(r2.val))>>)
        ELSE IF token_type = "Keyword" /\ lexeme = "with"
        THEN LET r1 == next(toks, ps)
             IN  IF r1.st # "ok" THEN r1 ELSE
                 LET r2 == ParserCall("parse_expression", <<toks, r1.ps>>)
                 IN  IF r2.st # "ok" THEN r2
                     ELSE Ok(r2.ps, WithE(expression, r2.val))
        ELSE IF token_type = "Keyword"
        THEN Ok([ps EXCEPT !.index = backup_index], expression)
        ELSE Ok(ps, expression)

\* right_min_prec with every operator treated as left-associative.
right_min_prec_all_left(operator) == operator.prec + 1

\* The right operand's threshold (parser.rs:919-923).
right_min_prec(operator) ==
    IF ~IsRightAss(operator.op) THEN operator.prec + 1 ELSE operator.prec

parse_binary(toks, ps, left, min_prec) ==
    IF current_type(toks, ps) # "Operator"
    THEN Ok(ps, left)
    ELSE LET index_backup == ps.index
             r1 == eat(toks, ps)
         IN  IF r1.st # "ok" THEN r1 ELSE
             LET operator == OperatorFromStr(r1.val)
             IN  IF operator = NoOperator
                 THEN Panic(r1.ps, "unwrap on None")
                 ELSE IF operator.prec < min_prec
                 THEN Ok([r1.ps EXCEPT !.index = index_backup], left)
                 ELSE LET r2 == ParserCall("parse_atom", <<toks, r1.ps>>)
                      IN  IF r2.st # "ok" THEN r2 ELSE
                          LET r3 == ParserCall("parse_binary", <<toks, r2.ps, r2.val,
                                                 right_min_prec(operator)>>)
                          IN  IF r3.st # "ok" THEN r3
                              ELSE ParserCall("parse_binary", <<toks, r3.ps,
                                       BinaryE(left, operator.op, r3.val),
                                       min_prec>>)

-----------------------------------------------------------------------------
(* Delimited mini-parses *)

_parse_expression(toks, ps) ==
    LET r == ParserCall("parse_expression", <<toks, ps>>)
    IN  IF r.st # "ok" THEN r
        ELSE IF r.val.node = "EOF" THEN Ok(r.ps, <<>>) ELSE Ok(r.ps, <<r.val>>)

\* `if self.remaining() > 0 && self.current_lexeme() == "\n" { self.next()? }`
skip_one_newline(toks, ps) ==
    IF remaining(toks, ps) > 0 /\ current_lexeme(toks, ps) = EOLLexeme
    THEN next(toks, ps)
    ELSE Ok(ps, NoVal)

_parse_expression_comma(toks, ps) ==
    LET r1 == skip_one_newline(toks, ps)
    IN  IF r1.st # "ok" THEN r1 ELSE
        LET expression == ParserCall("_parse_expression", <<toks, r1.ps>>)
        IN  IF expression.st \in {"panic", "diverge"} THEN expression ELSE
            LET r2 == skip_one_newline(toks, expression.ps)
            IN  IF r2.st # "ok" THEN r2 ELSE
                LET r3 == IF remaining(toks, r2.ps) > 0
                          THEN LET c == eat_lexeme(toks, r2.ps, ",")
                               IN  IF c.st # "ok" THEN c
                                   ELSE skip_one_newline(toks, c.ps)
                          ELSE Ok(r2.ps, NoVal)
                IN  IF r3.st # "ok" THEN r3
                    ELSE IF expression.st # "ok" THEN expression
                    ELSE Ok(r3.ps, expression.val)

_parse_definition_comma(toks, ps) ==
    LET r1 == skip_one_newline(toks, ps)
    IN  IF r1.st # "ok" THEN r1
        ELSE IF remaining(toks, r1.ps) = 0 THEN Ok(r1.ps, <<>>) ELSE
        LET name == eat_type(toks, r1.ps, "Identifier")
        IN  IF name.st # "ok" THEN name ELSE
            LET r2 == eat_lexeme(toks, name.ps, ":")
            IN  IF r2.st # "ok" THEN r2 ELSE
                LET value == ParserCall("parse_expression", <<toks, r2.ps>>)
                IN  IF value.st # "ok" THEN value ELSE
                    LET param == <<[key |-> name.val, value |-> value.val]>>
                    IN  IF remaining(toks, value.ps) > 0
                        THEN IF current_lexeme(toks, value.ps)
                                    \notin {",", EOLLexeme}
                             THEN Err(value.ps, "expected , or newline")
                             ELSE LET r3 == next(toks, value.ps)
                                  IN  IF r3.st # "ok" THEN r3 ELSE
                                      LET r4 == skip_one_newline(toks, r3.ps)
                                      IN  IF r4.st # "ok" THEN r4
                                          ELSE Ok(r4.ps, param)
                        ELSE Ok(value.ps, param)

\* The `while nest_count > 0` scan of parse_block_of.
RECURSIVE scan_block(_, _, _, _, _, _)
scan_block(toks, ps, open, close, nest_count, block_tokens) ==
    LET n == IF current_lexeme(toks, ps) = close
                /\ current_type(toks, ps) = "Symbol"
             THEN nest_count - 1
             ELSE IF current_lexeme(toks, ps) = open
                     /\ current_type(toks, ps) = "Symbol"
                  THEN nest_count + 1
                  ELSE nest_count
    IN  IF n = 0 THEN Ok(ps, block_tokens)
        ELSE LET r == next(toks, ps)
             IN  IF r.st # "ok" THEN r
                 ELSE scan_block(toks, r.ps, open, close, n,
                                 Append(block_tokens, current(toks, ps)))

\* The `while let Some(element) = parse_with(&mut parser)?` loop, run on the
\* sub-parser's own tokens and fields.
block_elements(sub, sps, parse_with, block) ==
    LET r == IF parse_with = "_parse_expression_comma"
             THEN ParserCall("_parse_expression_comma", <<sub, sps>>)
             ELSE ParserCall("_parse_definition_comma", <<sub, sps>>)
    IN  IF r.st # "ok" THEN r
        ELSE IF r.val = <<>> THEN Ok(r.ps, block)
        ELSE IF r.ps = sps THEN Diverge(sps, "block element loop")
        ELSE ParserCall("block_elements", <<sub, r.ps, parse_with, block \o r.val>>)

parse_block_of(toks, ps, open, close, parse_with) ==
    LET r1 == eat_lexeme(toks, ps, open)
    IN  IF r1.st # "ok" THEN r1
        ELSE IF current_lexeme(toks, r1.ps) = close
        THEN LET r == next(toks, r1.ps)
             IN  IF r.st # "ok" THEN r ELSE Ok(r.ps, <<>>)
        ELSE LET r2 == scan_block(toks, r1.ps, open, close, 1, <<>>)
             IN  IF r2.st # "ok" THEN r2 ELSE
                 LET r3 == eat_lexeme(toks, r2.ps, close)
                 IN  IF r3.st # "ok" THEN r3
                     ELSE IF r2.val # <<>>
                     THEN LET b == ParserCall("block_elements", <<r2.val, NewParser,
                                                  parse_with, <<>>>>)
                          IN  IF b.st # "ok"
                              THEN [b EXCEPT !.ps = r3.ps]
                              ELSE Ok(r3.ps, b.val)
                     ELSE Ok(r3.ps, <<>>)

-----------------------------------------------------------------------------
(* Statements *)

try_parse_compound(toks, ps, left) ==
    IF current_type(toks, ps) # "Operator"
    THEN Ok(ps, <<>>)
    ELSE LET backup_index == ps.index
             c == eat_type(toks, ps, "Operator")
         IN  IF c.st # "ok" THEN c
             ELSE IF IsCompoundable(c.val)
             THEN IF OperatorFromStr(c.val) = NoOperator
                  THEN Panic(c.ps, "unwrap on None")
                  ELSE IF current_lexeme(toks, c.ps) = "="
                  THEN LET r1 == next(toks, c.ps)
                       IN  IF r1.st # "ok" THEN r1 ELSE
                           LET right == ParserCall("parse_expression", <<toks, r1.ps>>)
                           IN  IF right.st # "ok" THEN right
                               ELSE Ok(right.ps,
                                       <<AssignmentS(left,
                                           BinaryE(left,
                                                   OperatorFromStr(c.val).op,
                                                   right.val))>>)
                  ELSE Ok([c.ps EXCEPT !.index = backup_index], <<>>)
             ELSE Ok(c.ps, <<>>)

\* The `while !self.is_dedent() && self.remaining() > 0` loop of parse_body.
body_statements(toks, ps, stack) ==
    IF ~is_dedent(toks, ps) /\ remaining(toks, ps) > 0
    THEN LET statement == ParserCall("parse_statement", <<toks, ps>>)
         IN  IF statement.st # "ok" THEN statement ELSE
             LET r == next_newline(toks, statement.ps)
             IN  IF r.st # "ok" THEN r
                 ELSE IF r.ps = ps THEN Diverge(ps, "body loop")
                 ELSE ParserCall("body_statements", <<toks, r.ps, Append(stack, statement.val)>>)
    ELSE Ok(ps, stack)

\* parser.rs:582-592: the first block fixes the unit, a later block is
\* checked against it.
indent_accepted(indent_standard, indent) ==
    indent_standard = 0 \/ indent % indent_standard = 0

parse_body(toks, ps) ==
    LET backup_indent == ps.indent
        indent == get_indent(toks, ps)
        ps1 == [ps EXCEPT !.indent = indent,
                          !.indent_standard =
                              IF @ = 0 THEN indent ELSE @]
    IN  IF ~indent_accepted(ps.indent_standard, indent)
        THEN Err([ps EXCEPT !.indent = indent],
                 "found inconsistently indented token")
        ELSE LET r == ParserCall("body_statements", <<toks, ps1, <<>>>>)
             IN  IF r.st # "ok" THEN r
                 ELSE Ok([r.ps EXCEPT !.indent = backup_indent], r.val)

\* The `while ["elif", "else"].contains(&cur.as_str())` loop of `if` and
\* `unless`.
else_chain(toks, ps, else_) ==
    LET cur == current_lexeme(toks, ps)
    IN  IF cur \notin {"elif", "else"} THEN Ok(ps, else_) ELSE
        LET r1 == next(toks, ps)
        IN  IF r1.st # "ok" THEN r1
            ELSE IF cur = "else"
            THEN LET r2 == eat_lexeme(toks, r1.ps, ":")
                 IN  IF r2.st # "ok" THEN r2 ELSE
                     LET b == ParserCall("parse_branch", <<toks, r2.ps>>)
                     IN  IF b.st # "ok" THEN b
                         ELSE ParserCall("else_chain", <<toks, b.ps,
                                  Append(else_, Clause(<<>>, b.val.body))>>)
            ELSE LET cond == ParserCall("parse_expression", <<toks, r1.ps>>)
                 IN  IF cond.st # "ok" THEN cond ELSE
                     LET r2 == eat_lexeme(toks, cond.ps, ":")
                     IN  IF r2.st # "ok" THEN r2 ELSE
                         LET b == ParserCall("parse_branch", <<toks, r2.ps>>)
                         IN  IF b.st # "ok" THEN b
                             ELSE ParserCall("else_chain", <<toks, b.ps,
                                      Append(else_,
                                             Clause(<<cond.val>>, b.val.body))>>)

\* conditional_cond without the negation of `unless`.
conditional_cond_plain(lexeme, e) == e

\* The condition node of `if` and of `unless`, which negates it
\* (parser.rs:436).
conditional_cond(lexeme, e) == IF lexeme = "unless" THEN NotE(e) ELSE e

\* `if` and `unless` after the keyword.
parse_conditional(toks, ps, lexeme) ==
    LET Cond(e) == conditional_cond(lexeme, e)
        cond == ParserCall("parse_expression", <<toks, ps>>)
    IN  IF cond.st # "ok" THEN cond ELSE
        LET r1 == eat_lexeme(toks, cond.ps, ":")
        IN  IF r1.st # "ok" THEN r1 ELSE
            LET b == ParserCall("parse_branch", <<toks, r1.ps>>)
            IN  IF b.st # "ok" THEN b
                ELSE IF b.val.single
                THEN Ok(b.ps, IfS(Cond(cond.val), b.val.body, <<>>))
                ELSE LET e == ParserCall("else_chain", <<toks, b.ps, <<>>>>)
                     IN  IF e.st # "ok" THEN e
                         ELSE Ok(e.ps, IfS(Cond(cond.val), b.val.body, e.val))

\* The desugaring of `loop N:` (parser.rs:261-346).
loop_counter_name(toks, ps) == "$loopy-boi-" \o ToString(remaining(toks, ps))

\* counted_loop with the increment left out of the loop body.
counted_loop_no_increment(name, count, body) ==
    BlockS(<<DeclarationS(name, <<IntE(0)>>),
             WhileS(BinaryE(IdentifierE(name), "Lt", count), body)>>)

counted_loop(name, count, body) ==
    LET left == IdentifierE(name)
        iterator == DeclarationS(name, <<IntE(0)>>)
        increment == AssignmentS(left, BinaryE(left, "Add", IntE(1)))
        comp == BinaryE(left, "Lt", count)
    IN  BlockS(<<iterator, WhileS(comp, Append(body, increment))>>)

\* The arms of parse_statement that leave through `return Ok(..)`; val is
\* the statement.
keyword_block_statement(toks, ps, lexeme) ==
    LET r0 == next(toks, ps)
    IN  IF r0.st # "ok" THEN r0
        ELSE IF lexeme = "fun"
        THEN LET name == eat_type(toks, r0.ps, "Identifier")
             IN  IF name.st # "ok" THEN name ELSE
                 LET sig == ParserCall("parse_signature", <<toks, name.ps>>)
                 IN  IF sig.st # "ok" THEN sig
                     ELSE Ok(sig.ps, FunctionS(name.val, sig.val.params,
                                               sig.val.body))
        ELSE IF lexeme = "interface"
        THEN LET name == eat_type(toks, r0.ps, "Identifier")
             IN  IF name.st # "ok" THEN name ELSE
                 LET r1 == eat_lexeme(toks, name.ps, ":")
                 IN  IF r1.st # "ok" THEN r1 ELSE
                     LET b == ParserCall("parse_branch", <<toks, r1.ps>>)
                     IN  IF b.st # "ok" THEN b
                         ELSE IF \E i \in 1..Len(b.val.body) :
                                     b.val.body[i].node # "Function"
                         THEN Err(b.ps, "can't interface non-function")
                         ELSE Ok(b.ps, InterfaceS(name.val, b.val.body))
        ELSE IF lexeme = "while"
        THEN LET cond == ParserCall("parse_expression", <<toks, r0.ps>>)
             IN  IF cond.st # "ok" THEN cond ELSE
                 LET r1 == eat_lexeme(toks, cond.ps, ":")
                 IN  IF r1.st # "ok" THEN r1 ELSE
                     LET b == ParserCall("parse_branch", <<toks, r1.ps>>)
                     IN  IF b.st # "ok" THEN b
                         ELSE Ok(b.ps, WhileS(cond.val, b.val.body))
        ELSE IF lexeme = "loop"
        THEN IF current_lexeme(toks, r0.ps) = ":"
             THEN LET r1 == next(toks, r0.ps)
                  IN  IF r1.st # "ok" THEN r1 ELSE
                      LET b == ParserCall("parse_branch", <<toks, r1.ps>>)
                      IN  IF b.st # "ok" THEN b
                          ELSE Ok(b.ps, WhileS(BoolE(TRUE), b.val.body))
             ELSE LET count == ParserCall("parse_expression", <<toks, r0.ps>>)
                  IN  IF count.st # "ok" THEN count ELSE
                      LET r1 == eat_lexeme(toks, count.ps, ":")
                      IN  IF r1.st # "ok" THEN r1 ELSE
                          LET name == loop_counter_name(toks, r1.ps)
                              b == ParserCall("parse_branch", <<toks, r1.ps>>)
                          IN  IF b.st # "ok" THEN b
                              ELSE Ok(b.ps, counted_loop(name, count.val,
                                                         b.val.body))
        ELSE ParserCall("parse_conditional", <<toks, r0.ps, lexeme>>)

\* The arms of parse_statement that fall through to `self.new_line()?`.
line_statement(toks, ps) ==
    LET token_type == current_type(toks, ps)
        lexeme == current_lexeme(toks, ps)
    IN  IF token_type = "Keyword" /\ lexeme = "return"
        THEN LET r0 == next(toks, ps)
             IN  IF r0.st # "ok" THEN r0
                 ELSE IF current_lexeme(toks, r0.ps) = EOLLexeme
                 THEN Ok(r0.ps, ReturnS(<<>>))
                 ELSE LET e == ParserCall("parse_expression", <<toks, r0.ps>>)
                      IN  IF e.st # "ok" THEN e
                          ELSE Ok(e.ps, ReturnS(<<e.val>>))
        ELSE IF token_type = "Keyword" /\ lexeme = "let"
        THEN LET r0 == next(toks, ps)
             IN  IF r0.st # "ok" THEN r0 ELSE
                 LET name == eat_type(toks, r0.ps, "Identifier")
                 IN  IF name.st # "ok" THEN name
                     ELSE IF current_lexeme(toks, name.ps) = EOLLexeme
                     THEN Ok(name.ps, DeclarationS(name.val, <<>>))
                     ELSE LET r1 == eat_lexeme(toks, name.ps, "=")
                          IN  IF r1.st # "ok" THEN r1 ELSE
                              LET right == ParserCall("parse_expression", <<toks, r1.ps>>)
                              IN  IF right.st # "ok" THEN right
                                  ELSE Ok(right.ps,
                                          DeclarationS(name.val, <<right.val>>))
        ELSE IF token_type = "Keyword" /\ lexeme = "const"
        THEN LET r0 == next(toks, ps)
             IN  IF r0.st # "ok" THEN r0
                 ELSE IF current_lexeme(toks, r0.ps) = "fun"
                 THEN LET f == ParserCall("parse_statement", <<toks, r0.ps>>)
                      IN  IF f.st # "ok" THEN f
                          ELSE Ok(f.ps, ConstFunctionS(f.val))
                 ELSE LET name == eat_type(toks, r0.ps, "Identifier")
                      IN  IF name.st # "ok" THEN name ELSE
                          LET r1 == eat_lexeme(toks, name.ps, "=")
                          IN  IF r1.st # "ok" THEN r1 ELSE
                              LET right == ParserCall("parse_expression", <<toks, r1.ps>>)
                              IN  IF right.st # "ok" THEN right
                                  ELSE Ok(right.ps,
                                          DeclarationS(name.val, <<right.val>>))
        ELSE IF token_type = "Keyword" /\ lexeme = "break"
        THEN LET r0 == next(toks, ps)
             IN  IF r0.st # "ok" THEN r0 ELSE Ok(r0.ps, BreakS)
        ELSE IF token_type = "Keyword"
        THEN LET e == ParserCall("parse_expression", <<toks, ps>>)
             IN  IF e.st # "ok" THEN e ELSE Ok(e.ps, ExpressionS(e.val))
        ELSE LET expression == ParserCall("parse_expression", <<toks, ps>>)
             IN  IF expression.st # "ok" THEN expression ELSE
                 LET result == ParserCall("try_parse_compound", <<toks, expression.ps,
                                                  expression.val>>)
                 IN  IF result.st # "ok" THEN result
                     ELSE IF result.val # <<>>
                     THEN Ok(result.ps, result.val[1])
                     ELSE IF current_lexeme(toks, result.ps) = "="
                     THEN LET r1 == next(toks, result.ps)
                          IN  IF r1.st # "ok" THEN r1 ELSE
                              LET value == ParserCall("parse_expression", <<toks, r1.ps>>)
                              IN  IF value.st # "ok" THEN value
                                  ELSE Ok(value.ps,
                                          AssignmentS(expression.val,
                                                      value.val))
                     ELSE Ok(result.ps, ExpressionS(expression.val))

parse_statement(toks, ps) ==
    LET r0 == skip_eol(toks, ps)
    IN  IF r0.st # "ok" THEN r0
        ELSE IF current_type(toks, r0.ps) = "Keyword"
                /\ current_lexeme(toks, r0.ps)
                       \in {"fun", "interface", "while", "loop", "if", "unless"}
        THEN ParserCall("keyword_block_statement", <<toks, r0.ps, current_lexeme(toks, r0.ps)>>)
        ELSE LET statement == ParserCall("line_statement", <<toks, r0.ps>>)
             IN  IF statement.st # "ok" THEN statement ELSE
                 LET r1 == new_line(toks, statement.ps)
                 IN  IF r1.st # "ok" THEN r1
                     ELSE Ok(r1.ps, statement.val)

\* The `while self.remaining() > 0` loop of parse.
parse_statements(toks, ps, stmts) ==
    IF remaining(toks, ps) > 0
    THEN LET r == ParserCall("parse_statement", <<toks, ps>>)
         IN  IF r.st # "ok" THEN r
             ELSE IF r.ps = ps THEN Diverge(ps, "parse loop")
             ELSE ParserCall("parse_statements", <<toks, r.ps, Append(stmts, r.val)>>)
    ELSE Ok(ps, stmts)

parse(toks) == ParserCall("parse_statements", <<toks, NewParser, <<>>>>)

\* The Parser method `fn` applied to the arguments `a`.
ParserCall(fn, a) ==
    CASE fn = "parse_branch" ->
          parse_branch(a[1], a[2])
      [] fn = "parse_params_rest" ->
          parse_params_rest(a[1], a[2], a[3])
      [] fn = "parse_signature" ->
          parse_signature(a[1], a[2])
      [] fn = "parse_expression" ->
          parse_expression(a[1], a[2])
      [] fn = "atom_primary" ->
          atom_primary(a[1], a[2])
      [] fn = "parse_atom" ->
          parse_atom(a[1], a[2])
      [] fn = "parse_call_args" ->
          parse_call_args(a[1], a[2], a[3])
      [] fn = "parse_postfix" ->
          parse_postfix(a[1], a[2], a[3])
      [] fn = "parse_binary" ->
          parse_binary(a[1], a[2], a[3], a[4])
      [] fn = "_parse_expression" ->
          _parse_expression(a[1], a[2])
      [] fn = "_parse_expression_comma" ->
          _parse_expression_comma(a[1], a[2])
      [] fn = "_parse_definition_comma" ->
          _parse_definition_comma(a[1], a[2])
      [] fn = "block_elements" ->
          block_elements(a[1], a[2], a[3], a[4])
      [] fn = "parse_block_of" ->
          parse_block_of(a[1], a[2], a[3], a[4], a[5])
      [] fn = "try_parse_compound" ->
          try_parse_compound(a[1], a[2], a[3])
      [] fn = "body_statements" ->
          body_statements(a[1], a[2], a[3])
      [] fn = "parse_body" ->
          parse_body(a[1], a[2])
      [] fn = "else_chain" ->
          else_chain(a[1], a[2], a[3])
      [] fn = "parse_conditional" ->
          parse_conditional(a[1], a[2], a[3])
      [] fn = "keyword_block_statement" ->
          keyword_block_statement(a[1], a[2], a[3])
      [] fn = "line_statement" ->
          line_statement(a[1], a[2])
      [] fn = "parse_statement" ->
          parse_statement(a[1], a[2])
      [] fn = "parse_statements" ->
          parse_statements(a[1], a[2], a[3])

-----------------------------------------------------------------------------
(* Visitor: types, bindings, scope table, builder                          *)

\* TypeNode; arity is the n of Func(n) and 0 otherwise.
TypeNode(tag) == [tag |-> tag, arity |-> 0]
FuncNode(n) == [tag |-> "Func", arity |-> n]

\* Binding::local / Binding::global; depth is an Option.
BindingLocal(name, depth, function_depth) ==
    [name |-> name, depth |-> <<depth>>, function_depth |-> function_depth]
BindingGlobal(name) ==
    [name |-> name, depth |-> <<>>, function_depth |-> 0]

\* Type::from, and Type::set_offset
TypeFrom(node) == [node |-> node, mode |-> "Regular", meta |-> <<>>]
set_offset(t, offset) == [t EXCEPT !.meta = <<offset>>]

\* SymTab: a stack of name -> Type frames, the innermost last.
EmptyFrame == [n \in {} |-> TypeFrom(TypeNode("Nil"))]
SymTabNew == <<EmptyFrame>>
symtab_push(symtab) == Append(symtab, EmptyFrame)
symtab_pop(symtab) == SubSeq(symtab, 1, Len(symtab) - 1)
symtab_assign(symtab, name, t) ==
    [symtab EXCEPT ![Len(symtab)] = (name :> t) @@ @]
symtab_fetch(symtab, name) ==
    LET holds == {i \in 1..Len(symtab) : name \in DOMAIN symtab[i]}
    IN  IF holds = {} THEN <<>>
        ELSE <<symtab[CHOOSE i \in holds : \A j \in holds : j <= i][name]>>

\* IR nodes.  The builder's factory methods return a node; emit, bind,
\* mutate, ret and break_ append one to the builder's program.
IrNumberInt(n) == [ir |-> "Number", int |-> n]
IrNumberFloat(lexeme) == [ir |-> "Number", float |-> lexeme]
IrString(str) == [ir |-> "String", str |-> str]
IrBool(b) == [ir |-> "Bool", bool |-> b]
IrNil == [ir |-> "Nil"]
IrVar(binding) == [ir |-> "Var", var |-> binding]
IrCall(callee, args) == [ir |-> "Call", callee |-> callee, args |-> args]
IrBinary(l, op, r) == [ir |-> "Binary", left |-> l, op |-> op, right |-> r]
IrList(content) == [ir |-> "List", content |-> content]
IrDict(keys, vals) == [ir |-> "Dict", keys |-> keys, vals |-> vals]
IrNot(e) == [ir |-> "Not", expr |-> e]
IrNeg(e) == [ir |-> "Neg", expr |-> e]
IrReturn(ret) == [ir |-> "Return", ret |-> ret]
IrPop == [ir |-> "Pop"]
IrBreak == [ir |-> "Break"]
IrBind(binding, rhs) == [ir |-> "Bind", var |-> binding, rhs |-> rhs]
IrMutate(lhs, rhs) == [ir |-> "Mutate", lhs |-> lhs, rhs |-> rhs]
IrSetElement(l, index, r) ==
    [ir |-> "SetElement", left |-> l, index |-> index, right |-> r]
IrBlock(program) == [ir |-> "Block", program |-> program]
IrWhile(cond, block) == [ir |-> "While", cond |-> cond, block |-> block]
IrIf(cond, then_, else_) ==
    [ir |-> "If", cond |-> cond, then_ |-> then_, else_ |-> else_]
IrFunction(kind, binding, params, inner) ==
    [ir |-> kind, var |-> binding, params |-> params, inner |-> inner]

\* IrBuilder::new() and IrBuilder::emit; the builder is its program.
IrBuilderNew == <<>>
emit(vs, node) == [vs EXCEPT !.builder = Append(@, node)]

\* Visitor::new
NewVisitor ==
    [symtab |-> SymTabNew, inside |-> <<>>, depth |-> 0, function_depth |-> 0,
     builder |-> IrBuilderNew, st |-> "new", err |-> "", log |-> <<>>]

\* A visitor function's `return Err(response!(Wrong(..)))`, and its abort.
Wrong(vs, kind) == [vs EXCEPT !.st = "err", !.err = kind]
Abort(vs, kind) == [vs EXCEPT !.st = "panic", !.err = kind]

assign(vs, name, t) == [vs EXCEPT !.symtab = symtab_assign(@, name, t)]

push_scope(vs) ==
    [vs EXCEPT !.symtab = symtab_push(@), !.depth = @ + 1]

\* pop_scope without `self.depth -= 1`.
pop_scope_keep_depth(vs) == [vs EXCEPT !.symtab = symtab_pop(@)]

pop_scope(vs) ==
    [vs EXCEPT !.symtab = symtab_pop(@), !.depth = @ - 1]

-----------------------------------------------------------------------------
(* Visitor: type_expression and visit_expression.  Neither changes the     *)
(* Visitor; the result is [st, err, val].                                  *)

TOk(val) == [st |-> "ok", err |-> "", val |-> val]
TErr(kind) == [st |-> "err", err |-> kind, val |-> NoVal]

OperandError == "can't perform operation"

Numeric == {TypeNode("Float"), TypeNode("Int"), TypeNode("Any")}

\* The operator arms of type_expression (visitor.rs:653-795) on the two
\* operand nodes.
binary_type(a, op, b) ==
    CASE op \in {"Add", "Sub", "Mul", "Div", "Mod"} ->
             IF <<a, b>> # <<TypeNode("Nil"), TypeNode("Nil")>>
             THEN IF a = b \/ TypeNode("Any") \in {a, b}
                  THEN IF a \in Numeric /\ b \in Numeric
                       THEN TOk(TypeFrom(a))
                       ELSE TErr(OperandError)
                  ELSE TErr(OperandError)
             ELSE TErr(OperandError)
      [] op = "Pow" ->
             IF a \in Numeric /\ b \in Numeric
             THEN TOk(TypeFrom(a))
             ELSE TErr(OperandError)
      [] op \in {"And", "Or"} ->
             IF (a = b /\ a = TypeNode("Bool")) \/ a = TypeNode("Any")
             THEN TOk(TypeFrom(TypeNode("Bool")))
             ELSE TErr(OperandError)
      [] op = "Concat" ->
             IF a \in {TypeNode("Str"), TypeNode("Any")}
             THEN IF b = TypeNode("Nil")
                  THEN TErr(OperandError)
                  ELSE TOk(TypeFrom(TypeNode("Str")))
             ELSE TErr(OperandError)
      [] op \in {"Eq", "NEq"} ->
             IF TypeNode("Nil") \in {a, b}
             THEN TErr(OperandError)
             ELSE TOk(TypeFrom(TypeNode("Bool")))
      [] op \in {"Lt", "Gt", "LtEq", "GtEq"} ->
             IF a \in Numeric /\ b \in Numeric
             THEN TOk(TypeFrom(TypeNode("Bool")))
             ELSE TErr(OperandError)
      [] OTHER -> TErr(OperandError)

RECURSIVE type_expression(_, _)
type_expression(vs, expression) ==
    LET node == expression.node
    IN  CASE node = "Str" -> TOk(TypeFrom(TypeNode("Str")))
          [] node = "Bool" -> TOk(TypeFrom(TypeNode("Bool")))
          [] node = "Int" -> TOk(TypeFrom(TypeNode("Int")))
          [] node = "Float" -> TOk(TypeFrom(TypeNode("Float")))
          [] node = "Binary" ->
               LET a == type_expression(vs, expression.left)
               IN  IF a.st # "ok" THEN a ELSE
                   LET b == type_expression(vs, expression.right)
                   IN  IF b.st # "ok" THEN b
                       ELSE IF expression.op = "Index"
                       THEN LET valid == {TypeNode("Any"), TypeNode("Str"),
                                          TypeNode("Int")}
                            IN  IF a.val.node \notin valid
                                   /\ b.val.node \notin valid
                                THEN TErr("can't index like this")
                                ELSE TOk(TypeFrom(TypeNode("Any")))
                       ELSE binary_type(a.val.node, expression.op, b.val.node)
          [] node = "Neg" -> type_expression(vs, expression.expr)
          [] node = "Not" -> TOk(TypeFrom(TypeNode("Bool")))
          [] node = "Identifier" ->
               LET t == symtab_fetch(vs.symtab, expression.name)
               IN  IF t = <<>> THEN TErr("no such variable") ELSE TOk(t[1])
          [] node = "Call" -> TOk(TypeFrom(TypeNode("Any")))
          [] OTHER -> TOk(TypeFrom(TypeNode("Nil")))

\* The expressions of a list visited in order, stopping at the first error.
RECURSIVE visit_expressions(_, _, _)
RECURSIVE visit_expression(_, _)

visit_expressions(vs, es, i) ==
    IF i > Len(es) THEN TOk(NoVal)
    ELSE LET r == visit_expression(vs, es[i])
         IN  IF r.st # "ok" THEN r ELSE visit_expressions(vs, es, i + 1)

visit_expression(vs, expression) ==
    LET node == expression.node
    IN  CASE node = "Call" ->
               LET caller_t == type_expression(vs, expression.callee)
               IN  IF caller_t.st # "ok" THEN caller_t
                   ELSE IF caller_t.val.node.tag = "Func"
                   THEN IF caller_t.val.node.arity # Len(expression.args)
                        THEN TErr("wrong amount of arguments")
                        ELSE TOk(NoVal)
                   ELSE IF caller_t.val.node # TypeNode("Any")
                        THEN TErr("trying to call non-function")
                        ELSE TOk(NoVal)
          [] node = "Array" -> visit_expressions(vs, expression.content, 1)
          [] node = "Dict" ->
               visit_expressions(vs,
                   [i \in 1..Len(expression.pairs) |-> expression.pairs[i].value],
                   1)
          [] OTHER -> TOk(NoVal)

-----------------------------------------------------------------------------
(* Visitor: compile_expression and visit_statement.                        *)
(*                                                                         *)
(* ctx is a history parameter no step reads: the constructs whose bodies   *)
(* lexically enclose the node, outermost first.  vs.log is a history       *)
(* field no step reads: for each statement met, that ctx and what became   *)
(* of the statement, in the order in which the statements were left.       *)

CR(vs, ir) == [vs |-> vs, ir |-> ir]

\* A call of one Visitor method by another is written
\* VisitorCall("method", <<arguments>>); VisitorCall, defined after the
\* methods, applies the method of that name.
RECURSIVE VisitorCall(_, _)

Last(seq) == seq[Len(seq)]
Front(seq) == SubSeq(seq, 1, Len(seq) - 1)
Range(seq) == {seq[i] : i \in 1..Len(seq)}

\* `self.inside.contains(&Inside::Loop)` with the last marker only.
break_allowed_innermost(inside) == inside # <<>> /\ Last(inside) = "Loop"

\* visitor.rs:353 and visitor.rs:153
break_allowed(inside) == "Loop" \in Range(inside)
return_allowed(inside) == "Function" \in Range(inside)


\* `for statement in body.iter() { self.visit_statement(statement)? }`
visit_statements(vs, body, i, ctx) ==
    IF i > Len(body) THEN vs
    ELSE LET r == VisitorCall("visit_statement", <<vs, body[i], ctx>>)
         IN  IF r.st # "ok" THEN r ELSE VisitorCall("visit_statements", <<r, body, i + 1, ctx>>)

\* The expressions of a list compiled in order; ir is the list of nodes.
compile_expressions(vs, es, i, acc, ctx) ==
    IF i > Len(es) THEN CR(vs, acc)
    ELSE LET r == VisitorCall("compile_expression", <<vs, es[i], ctx>>)
         IN  IF r.vs.st # "ok" THEN r
             ELSE VisitorCall("compile_expressions", <<r.vs, es, i + 1, Append(acc, r.ir), ctx>>)

\* `for param in params.iter() { .. self.assign(param.clone(), t) }`
RECURSIVE assign_params(_, _, _)
assign_params(vs, params, i) ==
    IF i > Len(params) THEN vs
    ELSE assign_params(
             assign(vs, params[i],
                    set_offset(TypeFrom(TypeNode("Any")),
                        BindingLocal(params[i], vs.depth, vs.function_depth))),
             params, i + 1)

\* The body shared by the Function statement (visitor.rs:174-222) and the
\* AnonFunction expression (visitor.rs:497-546); ir is the IrFunction.
compile_function(vs, kind, name, params, body, ctx) ==
    LET binding == BindingLocal(name, vs.depth, vs.function_depth)
        t == set_offset(TypeFrom(FuncNode(Len(params))), binding)
        v1 == assign(vs, name, t)
        old_current == v1.builder
        v2 == push_scope([v1 EXCEPT !.builder = IrBuilderNew,
                                    !.function_depth = @ + 1])
        v3 == assign_params([v2 EXCEPT !.inside = Append(@, "Function")],
                            params, 1)
        v4 == VisitorCall("visit_statements", <<v3, body, 1, Append(ctx, kind)>>)
    IN  IF v4.st # "ok" THEN CR(v4, IrNil)
        ELSE LET v5 == pop_scope([v4 EXCEPT !.inside = Front(@)])
                 v6 == emit([v5 EXCEPT !.function_depth = @ - 1],
                            IrReturn(<<>>))
                 inner == v6.builder
                 ir_params ==
                     [i \in 1..Len(params) |->
                         BindingLocal(params[i],
                             (IF binding.depth = <<>> THEN 0
                              ELSE binding.depth[1]) + 1,
                             binding.function_depth + 1)]
             IN  CR([v6 EXCEPT !.builder = old_current],
                    IrFunction(kind, binding, ir_params, inner))

compile_expression(vs, expression, ctx) ==
    LET node == expression.node
    IN  CASE node = "Float" -> CR(vs, IrNumberFloat(expression.float))
          [] node = "Int" -> CR(vs, IrNumberInt(expression.int))
          [] node = "Str" -> CR(vs, IrString(expression.str))
          [] node = "Bool" -> CR(vs, IrBool(expression.bool))
          [] node = "Identifier" ->
               LET n == expression.name
                   binding == symtab_fetch(vs.symtab, n)
               IN  IF binding = <<>>
                   THEN CR(Wrong(vs, "no such variable"), IrNil)
                   ELSE IF binding[1].meta # <<>>
                   THEN CR(vs, IrVar(BindingLocal(n, vs.depth,
                                   binding[1].meta[1].function_depth)))
                   ELSE CR(vs, IrVar(BindingGlobal(n)))
          [] node = "Call" ->
               LET args_ir == VisitorCall("compile_expressions", <<vs, expression.args, 1,
                                                  <<>>, ctx>>)
               IN  IF args_ir.vs.st # "ok" THEN args_ir ELSE
                   LET callee_ir == VisitorCall("compile_expression", <<args_ir.vs,
                                        expression.callee, ctx>>)
                   IN  IF callee_ir.vs.st # "ok" THEN callee_ir
                       ELSE CR(callee_ir.vs,
                               IrCall(callee_ir.ir, args_ir.ir))
          [] node = "Binary" ->
               LET left_ir == VisitorCall("compile_expression", <<vs, expression.left, ctx>>)
               IN  IF left_ir.vs.st # "ok" THEN left_ir ELSE
                   LET right_ir ==
                           IF expression.op = "Index"
                              /\ expression.right.node = "Str"
                           THEN CR(left_ir.vs, IrString(expression.right.str))
                           ELSE VisitorCall("compile_expression", <<left_ir.vs,
                                    expression.right, ctx>>)
                   IN  IF right_ir.vs.st # "ok" THEN right_ir
                       ELSE CR(right_ir.vs,
                               IrBinary(left_ir.ir, expression.op, right_ir.ir))
          [] node = "Array" ->
               LET cont_ir == VisitorCall("compile_expressions", <<vs, expression.content, 1,
                                                  <<>>, ctx>>)
               IN  IF cont_ir.vs.st # "ok" THEN cont_ir
                   ELSE CR(cont_ir.vs, IrList(cont_ir.ir))
          [] node = "Dict" ->
               LET pairs == expression.pairs
                   vals == VisitorCall("compile_expressions", <<vs,
                               [i \in 1..Len(pairs) |-> pairs[i].value], 1,
                               <<>>, ctx>>)
               IN  IF vals.vs.st # "ok" THEN vals
                   ELSE CR(vals.vs,
                           IrDict([i \in 1..Len(pairs) |->
                                      IrString(pairs[i].key)], vals.ir))
          [] node = "AnonFunction" ->
               VisitorCall("compile_function", <<vs, "AnonFunction", expression.name,
                                expression.params, expression.body, ctx>>)
          [] node = "EOF" -> CR(vs, IrReturn(<<>>))
          [] node = "Not" ->
               LET r == VisitorCall("compile_expression", <<vs, expression.expr, ctx>>)
               IN  IF r.vs.st # "ok" THEN r ELSE CR(r.vs, IrNot(r.ir))
          [] node = "Neg" ->
               LET r == VisitorCall("compile_expression", <<vs, expression.expr, ctx>>)
               IN  IF r.vs.st # "ok" THEN r ELSE CR(r.vs, IrNeg(r.ir))
          [] OTHER -> CR(Abort(vs, "not yet implemented"), IrNil)

\* A failed type_expression / visit_expression ends the caller.
Failed(vs, r) == Wrong(vs, r.err)

visit_variable(vs, variable, ctx) ==
    LET name == variable.name
        here == BindingLocal(name, vs.depth, vs.function_depth)
    IN  IF variable.init = <<>>
        THEN LET t == set_offset(TypeFrom(TypeNode("Nil")), here)
                 v1 == assign(vs, name, t)
             IN  emit(v1, IrBind(here, IrNumberInt(0)))
        ELSE LET found == symtab_fetch(vs.symtab, name)
             IN  IF found # <<>> /\ found[1].meta = <<>>
                 THEN Abort(vs, "unwrap on None")
                 ELSE LET binding == IF found # <<>> THEN found[1].meta[1]
                                     ELSE here
                          t == type_expression(vs, variable.init[1])
                      IN  IF t.st # "ok" THEN Failed(vs, t) ELSE
                          LET v1 == assign(vs, name, set_offset(t.val, binding))
                              right_ir == VisitorCall("compile_expression", <<v1,
                                              variable.init[1], ctx>>)
                          IN  IF right_ir.vs.st # "ok" THEN right_ir.vs
                              ELSE emit(right_ir.vs,
                                        IrBind(binding, right_ir.ir))

visit_ass(vs, ass, ctx) ==
    LET target == ass.target
        right == ass.value
        \* the tail shared by the Identifier arm and the `_ => ()` arm
        Mutate(v0) ==
            LET r0 == visit_expression(v0, right)
            IN  IF r0.st # "ok" THEN Failed(v0, r0) ELSE
                LET left_ir == VisitorCall("compile_expression", <<v0, target, ctx>>)
                IN  IF left_ir.vs.st # "ok" THEN left_ir.vs ELSE
                    LET right_ir == VisitorCall("compile_expression", <<left_ir.vs, right, ctx>>)
                    IN  IF right_ir.vs.st # "ok" THEN right_ir.vs
                        ELSE emit(right_ir.vs,
                                  IrMutate(left_ir.ir, right_ir.ir))
    IN  IF target.node = "Identifier"
        THEN LET left_t == symtab_fetch(vs.symtab, target.name)
             IN  IF left_t = <<>>
                 THEN Wrong(vs, "can't assign non-existent")
                 ELSE IF left_t[1].meta = <<>>
                 THEN Abort(vs, "unwrap on None")
                 ELSE LET t == type_expression(vs, right)
                      IN  IF t.st # "ok" THEN Failed(vs, t)
                          ELSE Mutate(assign(vs, target.name,
                                   set_offset(t.val, left_t[1].meta[1])))
        ELSE IF target.node = "Binary" /\ target.op = "Index"
        THEN LET left_ir == VisitorCall("compile_expression", <<vs, target.left, ctx>>)
             IN  IF left_ir.vs.st # "ok" THEN left_ir.vs ELSE
                 LET index_ir == VisitorCall("compile_expression", <<left_ir.vs, target.right,
                                                    ctx>>)
                 IN  IF index_ir.vs.st # "ok" THEN index_ir.vs ELSE
                     LET right_ir == VisitorCall("compile_expression", <<index_ir.vs, right,
                                                        ctx>>)
                     IN  IF right_ir.vs.st # "ok" THEN right_ir.vs
                         ELSE emit(right_ir.vs,
                                   IrSetElement(left_ir.ir, index_ir.ir,
                                                right_ir.ir))
        ELSE Mutate(vs)

\* The `for (i, els) in else_.iter().enumerate()` loop of the If arm
\* (visitor.rs:304-337); ir is else_blocks.
else_clauses(vs, else_, i, else_blocks, ctx) ==
    IF i > Len(else_) THEN CR(vs, else_blocks)
    ELSE LET els == else_[i]
             old_current == vs.builder
             v1 == push_scope([vs EXCEPT !.builder = IrBuilderNew])
         IN  IF els.cond # <<>>
             THEN LET elif == IfS(els.cond[1], els.body,
                                  SubSeq(else_, i + 1, Len(else_)))
                      v2 == VisitorCall("visit_statement", <<v1, elif, ctx>>)
                  IN  IF v2.st # "ok" THEN CR(v2, else_blocks)
                      ELSE CR(pop_scope(v2), else_blocks)
             ELSE LET v2 == VisitorCall("visit_statements", <<v1, els.body, 1,
                                             Append(ctx, "Else")>>)
                  IN  IF v2.st # "ok" THEN CR(v2, else_blocks)
                      ELSE LET v3 == pop_scope(v2)
                               body == v3.builder
                           IN  VisitorCall("else_clauses", <<
                                   [v3 EXCEPT !.builder = old_current],
                                   else_, i + 1, IrBlock(body), ctx>>)

\* `visit_expression(cond)?` and the Bool-or-Any test that open the While
\* and If arms; ir is the compiled condition.
compile_condition(vs, cond, ctx) ==
    LET r0 == visit_expression(vs, cond)
    IN  IF r0.st # "ok" THEN CR(Failed(vs, r0), IrNil) ELSE
        LET t == type_expression(vs, cond)
        IN  IF t.st # "ok" THEN CR(Failed(vs, t), IrNil)
            ELSE IF t.val.node \in {TypeNode("Bool"), TypeNode("Any")}
            THEN VisitorCall("compile_expression", <<vs, cond, ctx>>)
            ELSE CR(Wrong(vs, "can't have non-boolean condition"), IrNil)

\* What became of one statement: where it stood, how its arm ended, the
\* active builder before and after it, the scope table, the counters and
\* the marker stack it was entered with, and the same four when it was left.
Event(vs, statement, ctx, r) ==
    [statement |-> statement, ctx |-> ctx, st |-> r.st, err |-> r.err,
     before |-> vs.builder, after |-> r.builder,
     scope |-> vs.symtab, depth |-> vs.depth,
     function_depth |-> vs.function_depth, inside |-> vs.inside,
     exit |-> [symtab |-> r.symtab, depth |-> r.depth,
               function_depth |-> r.function_depth, inside |-> r.inside]]

visit_statement(vs, statement, ctx) ==
    LET node == statement.node
        r ==
        CASE node = "Expression" ->
               LET r0 == visit_expression(vs, statement.expr)
               IN  IF r0.st # "ok" THEN Failed(vs, r0) ELSE
                   LET ir == VisitorCall("compile_expression", <<vs, statement.expr, ctx>>)
                   IN  IF ir.vs.st # "ok" THEN ir.vs
                       ELSE emit(emit(ir.vs, ir.ir), IrPop)
          [] node = "Declaration" -> VisitorCall("visit_variable", <<vs, statement, ctx>>)
          [] node = "Assignment" -> VisitorCall("visit_ass", <<vs, statement, ctx>>)
          [] node = "Block" ->
               VisitorCall("visit_statements", <<vs, statement.body, 1, Append(ctx, "Block")>>)
          [] node = "Return" ->
               IF return_allowed(vs.inside)
               THEN IF statement.ret # <<>>
                    THEN LET r0 == visit_expression(vs, statement.ret[1])
                         IN  IF r0.st # "ok" THEN Failed(vs, r0) ELSE
                             LET ret == VisitorCall("compile_expression", <<vs,
                                            statement.ret[1], ctx>>)
                             IN  IF ret.vs.st # "ok" THEN ret.vs
                                 ELSE emit(ret.vs, IrReturn(<<ret.ir>>))
                    ELSE emit(vs, IrReturn(<<>>))
               ELSE Wrong(vs, "can't return outside of function")
          [] node = "Function" ->
               LET f == VisitorCall("compile_function", <<vs, "Function", statement.name,
                                         statement.params, statement.body, ctx>>)
               IN  IF f.vs.st # "ok" THEN f.vs ELSE emit(f.vs, f.ir)
          [] node = "Interface" ->
               VisitorCall("visit_statements", <<vs, statement.body, 1, Append(ctx, "Interface")>>)
          [] node = "While" ->
               LET cond == VisitorCall("compile_condition", <<vs, statement.cond, ctx>>)
               IN  IF cond.vs.st # "ok" THEN cond.vs ELSE
                   LET old_current == cond.vs.builder
                       v1 == push_scope([cond.vs EXCEPT
                                            !.builder = IrBuilderNew])
                       v2 == [v1 EXCEPT !.depth = @ - 1,
                                        !.inside = Append(@, "Loop")]
                       v3 == VisitorCall("visit_statements", <<v2, statement.body, 1,
                                              Append(ctx, "While")>>)
                   IN  IF v3.st # "ok" THEN v3 ELSE
                       LET v4 == pop_scope([v3 EXCEPT !.inside = Front(@),
                                                      !.depth = @ + 1])
                           body == IrBlock(v4.builder)
                       IN  emit([v4 EXCEPT !.builder = old_current],
                                IrWhile(cond.ir, body))
          [] node = "If" ->
               LET cond == VisitorCall("compile_condition", <<vs, statement.cond, ctx>>)
               IN  IF cond.vs.st # "ok" THEN cond.vs ELSE
                   LET old_current == cond.vs.builder
                       v1 == push_scope([cond.vs EXCEPT
                                            !.builder = IrBuilderNew])
                       v2 == [v1 EXCEPT !.depth = @ - 1]
                       v3 == VisitorCall("visit_statements", <<v2, statement.body, 1,
                                              Append(ctx, "If")>>)
                   IN  IF v3.st # "ok" THEN v3 ELSE
                       LET v4 == pop_scope([v3 EXCEPT !.depth = @ + 1])
                           body == IrBlock(v4.builder)
                           e == VisitorCall("else_clauses", <<
                                    [v4 EXCEPT !.builder = old_current],
                                    statement.else_, 1, IrNil, ctx>>)
                       IN  IF e.vs.st # "ok" THEN e.vs
                           ELSE emit(e.vs, IrIf(cond.ir, body, e.ir))
          [] node = "Break" ->
               IF break_allowed(vs.inside)
               THEN emit(vs, IrBreak)
               ELSE Wrong(vs, "you need a loop to break out of here")
          [] node \in {"Const", "ConstFunction"} ->
               Wrong(vs, "constants are not implemented yet")
          [] OTHER -> Wrong(vs, "unexpected statement")
    IN  [r EXCEPT !.log = Append(@, Event(vs, statement, ctx, r))]

\* Visitor::visit (visitor.rs:109-119)
visit(vs, stmts) ==
    LET v1 == [vs EXCEPT !.symtab = symtab_push(@)]
        v2 == VisitorCall("visit_statements", <<v1, stmts, 1, <<>>>>)
    IN  IF v2.st # "ok" THEN v2
        ELSE [v2 EXCEPT !.symtab = symtab_pop(@)]

\* The Visitor method `fn` applied to the arguments `a`.
VisitorCall(fn, a) ==
    CASE fn = "visit_statements" ->
          visit_statements(a[1], a[2], a[3], a[4])
      [] fn = "compile_expressions" ->
          compile_expressions(a[1], a[2], a[3], a[4], a[5])
      [] fn = "compile_function" ->
          compile_function(a[1], a[2], a[3], a[4], a[5], a[6])
      [] fn = "compile_expression" ->
          compile_expression(a[1], a[2], a[3])
      [] fn = "visit_variable" ->
          visit_variable(a[1], a[2], a[3])
      [] fn = "visit_ass" ->
          visit_ass(a[1], a[2], a[3])
      [] fn = "else_clauses" ->
          else_clauses(a[1], a[2], a[3], a[4], a[5])
      [] fn = "compile_condition" ->
          compile_condition(a[1], a[2], a[3])
      [] fn = "visit_statement" ->
          visit_statement(a[1], a[2], a[3])
      [] fn = "visit" ->
          visit(a[1], a[2])

\* Visitor::set_global (visitor.rs:105-107)
set_global(vs, name, t) == assign(vs, name, TypeFrom(t))

-----------------------------------------------------------------------------
(* Inputs of the Parser *)

AtomLexemes == {"x", "1", "'a'", "true", "1.5"}

BinaryLexemes == {l \in OperatorLexemes : OperatorFromStr(l) # NoOperator}

\* `a OP1 b OP2 c` on one line.
ExprInputs ==
    {Line(0, <<a, o1, b, o2, c>>) :
        a \in AtomLexemes, b \in {"y", "2"}, c \in {"z", "true"},
        o1 \in BinaryLexemes, o2 \in BinaryLexemes}

\* `x OP = 1` on one line, for every operator lexeme.
CompoundInputs == {Line(0, <<"x", o, "=", "1">>) : o \in OperatorLexemes}

\* Every token sequence of at most MaxLen tokens over a small alphabet,
\* with and without a trailing line terminator.
ShortAlphabet ==
    {"f", "1", "(", ")", ",", "+", EOLLexeme, "nil", "2147483648"}

ShortWords == UNION {[1..n -> ShortAlphabet] : n \in 0..MaxLen}

ShortInputs ==
    {[i \in 1..Len(w) |-> Tok(TokenTypeOf(w[i]), w[i], i)] : w \in ShortWords}

\* Two conditionals whose four following lines are indented freely.
IndentProgram(i1, i2, i3, i4) ==
    Lines(<<Line(0, <<"if", "a", ":">>), Line(i1, <<"b">>), Line(i2, <<"c">>),
            Line(i3, <<"if", "d", ":">>), Line(i4, <<"e">>)>>)

IndentInputs ==
    {IndentProgram(i1, i2, i3, i4) :
        i1 \in 0..MaxIndent, i2 \in 0..MaxIndent,
        i3 \in 0..MaxIndent, i4 \in 0..MaxIndent}

\* One-line statements used as bodies.
BodyLines == {<<"x", "=", "x", "+", "1">>, <<"f", "(", ")">>, <<"break">>,
              <<"y">>}

\* `loop N: body`, the body on the same line or as an indented block of
\* one or two statements, and a counted loop inside a counted loop.
LoopInputs ==
    {Line(0, <<"loop", n, ":">> \o s) : n \in {"3", "x"}, s \in BodyLines}
    \cup {Lines(<<Line(0, <<"loop", n, ":">>), Line(2, s1)>>) :
              n \in {"3", "x"}, s1 \in BodyLines}
    \cup {Lines(<<Line(0, <<"loop", n, ":">>), Line(2, s1), Line(2, s2)>>) :
              n \in {"3", "x"}, s1 \in BodyLines, s2 \in BodyLines}
    \cup {Lines(<<Line(0, <<"loop", n, ":">>), Line(2, <<"loop", "2", ":">> \o s),
                  Line(2, <<"y">>)>>) :
              n \in {"3", "x"}, s \in BodyLines}

\* Conditions of one to three tokens.
CondLexemes == {<<"a">>, <<"a", "==", "1">>, <<"not", "a">>,
                <<"a", "and", "b">>, <<"f", "(", ")">>, <<"(", "a", ")">>,
                <<"-", "a">>}

\* elif/else chains that follow an indented body.
ChainLines ==
    {<<>>,
     <<Line(0, <<"else", ":">>), Line(2, <<"z">>)>>,
     <<Line(0, <<"elif", "b", ":">>), Line(2, <<"y">>)>>,
     <<Line(0, <<"elif", "b", ":">>), Line(2, <<"y">>),
       Line(0, <<"else", ":">>), Line(2, <<"z">>)>>,
     <<Line(0, <<"elif", "b", ":">>), Line(2, <<"y">>),
       Line(0, <<"elif", "c", "<", "2", ":", "z">>)>>}

\* `unless COND: body ...`, the body on the same line or as an indented
\* block followed by a chain.
UnlessInputs ==
    {Line(0, <<"unless">> \o c \o <<":">> \o s) :
        c \in CondLexemes, s \in BodyLines}
    \cup {Lines(<<Line(0, <<"unless">> \o c \o <<":">>), Line(2, s)>> \o ch) :
              c \in CondLexemes, s \in BodyLines, ch \in ChainLines}

\* Programs that use `const NAME = expr` or `const fun ...`.
ConstInputs ==
    {Line(0, <<"const", "x", "=">> \o e) :
        e \in {<<"1">>, <<"'a'">>, <<"1", "+", "2">>, <<"y">>}}
    \cup {Lines(<<Line(0, <<"const", "x", "=", "1">>), Line(0, s)>>) :
              s \in BodyLines}
    \cup {Line(0, <<"const", "fun", "f", "(", ")", ":">> \o s) :
              s \in BodyLines}
    \cup {Lines(<<Line(0, <<"const", "fun", "f", "(", "a", ")", ":">>),
                  Line(2, s)>>) : s \in BodyLines}

\* Inputs that end inside a parenthesis, among them `((1)`.
UnclosedInputs ==
    {[i \in 1..Len(w) |-> Tok(TokenTypeOf(w[i]), w[i], i)] :
        w \in {<<"(", "(", "1", ")">>, <<"(", "1">>, <<"(", "(", "1", ")", ")">>,
               <<"(", "f", "(", ")">>, <<"x", "=", "(", "(", "1", ")">>}}

\* Argument lists: the lexemes between `(` and `)` and the expressions
\* they stand for.
ArgumentLists ==
    {[lexemes |-> <<>>, args |-> <<>>],
     [lexemes |-> <<"1">>, args |-> <<IntE(1)>>],
     [lexemes |-> <<"x", ",", "y">>,
      args |-> <<IdentifierE("x"), IdentifierE("y")>>],
     [lexemes |-> <<"x", ",", "-", "y">>,
      args |-> <<IdentifierE("x"), NegE(IdentifierE("y"))>>],
     [lexemes |-> <<"'a'", ",", "true", ",", "1.5">>,
      args |-> <<StrE("'a'"), BoolE(TRUE), FloatE("1.5")>>],
     [lexemes |-> <<"-", "x">>, args |-> <<NegE(IdentifierE("x"))>>],
     [lexemes |-> <<"not", "x">>, args |-> <<NotE(IdentifierE("x"))>>],
     [lexemes |-> <<"-", "x", ",", "y">>,
      args |-> <<NegE(IdentifierE("x")), IdentifierE("y")>>],
     [lexemes |-> <<"nil">>, args |-> <<NilE>>]}

\* The statement `f(args)` and the statement `f(args)(1)`.
CallLine(a) == Line(0, <<"f", "(">> \o a.lexemes \o <<")">>)
CallCallLine(a) == Line(0, <<"f", "(">> \o a.lexemes \o <<")", "(", "1", ")">>)

CallInputs ==
    {CallLine(a) : a \in ArgumentLists}
    \cup {CallCallLine(a) : a \in ArgumentLists}

\* A sequence of lexemes as one line of tokens without a line terminator.
Word(w) == [i \in 1..Len(w) |-> Tok(TokenTypeOf(w[i]), w[i], i)]

\* Balanced array and dictionary literals and the expressions they stand
\* for.
BracketLiterals ==
    {[lexemes |-> <<"[", "]">>, expr |-> ArrayE(<<>>)],
     [lexemes |-> <<"[", "1", "]">>, expr |-> ArrayE(<<IntE(1)>>)],
     [lexemes |-> <<"[", "[", "]", "]">>, expr |-> ArrayE(<<ArrayE(<<>>)>>)],
     [lexemes |-> <<"[", "[", "1", "]", ",", "2", "]">>,
      expr |-> ArrayE(<<ArrayE(<<IntE(1)>>), IntE(2)>>)],
     [lexemes |-> <<"[", "1", ",", "[", "2", "]", "]">>,
      expr |-> ArrayE(<<IntE(1), ArrayE(<<IntE(2)>>)>>)],
     [lexemes |-> <<"[", "[", "1", "]", ",", "[", "2", "]", "]">>,
      expr |-> ArrayE(<<ArrayE(<<IntE(1)>>), ArrayE(<<IntE(2)>>)>>)],
     [lexemes |-> <<"{", "a", ":", "1", "}">>,
      expr |-> DictE(<<[key |-> "a", value |-> IntE(1)]>>)],
     [lexemes |-> <<"{", "a", ":", "{", "b", ":", "1", "}", "}">>,
      expr |-> DictE(<<[key |-> "a",
                        value |-> DictE(<<[key |-> "b",
                                           value |-> IntE(1)]>>)]>>)]}

\* Literals whose opening bracket has no matching closing bracket.
OpenBrackets ==
    {<<"[">>, <<"[", "1">>, <<"[", "[", "]">>, <<"[", "[", "1", "]">>,
     <<"[", "1", ",", "[", "2", "]">>, <<"{", "a", ":", "1">>,
     <<"{", "a", ":", "{", "b", ":", "1", "}">>}

BracketInputs ==
    {Word(b.lexemes) : b \in BracketLiterals}
    \cup {Line(0, b.lexemes) : b \in BracketLiterals}
    \cup {Word(w) : w \in OpenBrackets}
    \cup {Line(0, w) : w \in OpenBrackets}

\* One token of each literal class and an identifier, with the node each
\* stands for.
AtomTokens ==
    {[lexeme |-> "1", expr |-> IntE(1)],
     [lexeme |-> "1.5", expr |-> FloatE("1.5")],
     [lexeme |-> "'a'", expr |-> StrE("'a'")],
     [lexeme |-> "true", expr |-> BoolE(TRUE)],
     [lexeme |-> "nil", expr |-> NilE],
     [lexeme |-> "y", expr |-> IdentifierE("y")]}

\* `let x = ATOM` and `ATOM` as statements, with a line terminator.
LetAtomLine(a) == Line(0, <<"let", "x", "=", a.lexeme>>)
AtomLine(a) == Line(0, <<a.lexeme>>)

AtomInputs ==
    {LetAtomLine(a) : a \in AtomTokens} \cup {AtomLine(a) : a \in AtomTokens}

\* `U a OP b` and `x OP1 U a OP2 b` for the unary operators U and every
\* binary operator.
UnaryLexemes == {"-", "not"}

UnaryLine(u, o) == Line(0, <<u, "a", o, "b">>)
OperandUnaryLine(o1, u, o2) == Line(0, <<"x", o1, u, "a", o2, "b">>)

UnaryInputs ==
    {UnaryLine(u, o) : u \in UnaryLexemes, o \in BinaryLexemes}
    \cup {OperandUnaryLine(o1, u, o2) :
              o1 \in BinaryLexemes, u \in UnaryLexemes, o2 \in BinaryLexemes}

\* Programs with two `loop N` statements: siblings, one in an anonymous
\* function written in an array or dictionary literal and one outside it,
\* and one in each of two literals.
LoopLine == <<"loop", "3", ":", "y">>
ClosureLoop == <<"fun", "(", ")", ":">> \o LoopLine

TwoLoopInputs ==
    {Lines(<<Line(0, LoopLine), Line(0, LoopLine)>>),
     Lines(<<Line(0, LoopLine), Line(0, <<"x">>), Line(0, LoopLine)>>),
     Lines(<<Line(0, <<"[">> \o ClosureLoop), Line(0, <<"]">>),
             Line(0, LoopLine)>>),
     Lines(<<Line(0, <<"[">> \o ClosureLoop \o <<"]">>), Line(0, LoopLine)>>),
     Lines(<<Line(0, LoopLine), Line(0, <<"[">> \o ClosureLoop \o <<"]">>)>>),
     Lines(<<Line(0, <<"{", "a", ":">> \o ClosureLoop), Line(0, <<"}">>),
             Line(0, LoopLine)>>),
     Lines(<<Line(0, <<"[">> \o ClosureLoop \o <<"]">>),
             Line(0, <<"[">> \o ClosureLoop \o <<"]">>)>>),
     Lines(<<Line(0, <<"x", "=", "[">> \o ClosureLoop \o <<"]">>),
             Line(0, <<"z", "=", "[">> \o ClosureLoop \o <<"]">>)>>)}

ParserInputs ==
    ExprInputs \cup CompoundInputs \cup ShortInputs \cup IndentInputs
        \cup LoopInputs \cup UnlessInputs \cup ConstInputs
        \cup UnclosedInputs \cup CallInputs \cup BracketInputs
        \cup AtomInputs \cup UnaryInputs \cup TwoLoopInputs

-----------------------------------------------------------------------------
(* The Visitor's variables before a Visitor exists. *)

NoVisitor == [st |-> "none"]
NoCall == [call |-> "none"]

-----------------------------------------------------------------------------
(* Specification of the Parser: Parser::new(tokens, source).parse()        *)

Init ==
    /\ tokens \in ParserInputs
    /\ p_st = "ready"
    /\ p_err = ""
    /\ p_ast = <<>>
    /\ p_ps = NewParser
    /\ p_entry = NewParser
    /\ ast = <<>>
    /\ v = NoVisitor
    /\ v_entry = NoCall
    /\ v_calls = 0

Parse ==
    /\ p_st = "ready"
    /\ \E r \in {parse(tokens)} :
           /\ p_st' = r.st
           /\ p_err' = r.err
           /\ p_ast' = IF r.st = "ok" THEN r.val ELSE <<>>
           /\ p_ps' = r.ps
    /\ UNCHANGED <<tokens, p_entry, visitorVars>>

\* Visitor::new(source).visit(&ast) on the statements parse returned.
Compile ==
    /\ p_st = "ok"
    /\ v = NoVisitor
    /\ ast' = p_ast
    /\ v_entry' = [call |-> "visit", vs |-> NewVisitor]
    /\ v' = VisitorCall("visit", <<[NewVisitor EXCEPT !.st = "ok"], p_ast>>)
    /\ v_calls' = Len(p_ast)
    /\ UNCHANGED parserVars

Next == Parse \/ Compile

Spec == Init /\ [][Next]_vars

-----------------------------------------------------------------------------
(* Specification of one call of try_parse_compound(left), made as          *)
(* parse_statement makes it, on a Parser whose cursor stands somewhere in  *)
(* a line `x OP t 1`.                                                      *)

CompoundCallInputs ==
    {Line(0, <<"x", o, t, "1">>) :
        o \in OperatorLexemes, t \in {"=", "y", "("}}

InitCompound ==
    /\ tokens \in CompoundCallInputs
    /\ p_st = "ready"
    /\ p_err = ""
    /\ p_ast = <<>>
    /\ \E i \in 0..MaxLen : p_ps = [NewParser EXCEPT !.index = i]
    /\ p_entry = p_ps
    /\ ast = <<>>
    /\ v = NoVisitor
    /\ v_entry = NoCall
    /\ v_calls = 0

\* p_ast is the Option<Statement> returned.
TryParseCompound ==
    /\ p_st = "ready"
    /\ \E r \in {ParserCall("try_parse_compound",
                              <<tokens, p_ps, IdentifierE("x")>>)} :
           /\ p_st' = r.st
           /\ p_err' = r.err
           /\ p_ast' = r.val
           /\ p_ps' = r.ps
    /\ UNCHANGED <<tokens, p_entry, visitorVars>>

NextCompound == TryParseCompound

SpecCompound == InitCompound /\ [][NextCompound]_vars

-----------------------------------------------------------------------------
(* Properties of the Parser *)

Parsed == p_st # "ready"

IsAtomToken(t) ==
    \/ t.type \in {"Float", "Str", "Bool", "Identifier"}
    \/ t.type = "Int" /\ ParseI32(t.lexeme) # <<>>

\* The node a literal or identifier token stands for.
AtomNode(t) ==
    CASE t.type = "Int" -> IntE(ParseI32(t.lexeme)[1])
      [] t.type = "Float" -> FloatE(t.lexeme)
      [] t.type = "Str" -> StrE(t.lexeme)
      [] t.type = "Bool" -> BoolE(t.lexeme = "true")
      [] t.type = "Identifier" -> IdentifierE(t.lexeme)

IsBinaryToken(t) == t.type = "Operator" /\ OperatorFromStr(t.lexeme) # NoOperator

\* The input is `a OP1 b OP2 c` and a line terminator.
IsTwoOperatorExpr(toks) ==
    /\ Len(toks) = 6
    /\ \A i \in {1, 3, 5} : IsAtomToken(toks[i])
    /\ \A i \in {2, 4} : IsBinaryToken(toks[i])
    /\ toks[6].type = "EOL"

\* OP2 binds tighter than OP1, or as tight and is right-associative.
GroupsRight(o1, o2) ==
    \/ o2.prec > o1.prec
    \/ o2.prec = o1.prec /\ IsRightAss(o2.op)

\* C1: `a OP1 b OP2 c` parses to a OP1 (b OP2 c) when OP2 has the higher
\* precedence or the same precedence and is right-associative, and to
\* (a OP1 b) OP2 c otherwise.
C1_Precedence ==
    (Parsed /\ IsTwoOperatorExpr(tokens)) =>
        LET a == AtomNode(tokens[1])
            b == AtomNode(tokens[3])
            c == AtomNode(tokens[5])
            o1 == OperatorFromStr(tokens[2].lexeme)
            o2 == OperatorFromStr(tokens[4].lexeme)
        IN  /\ p_st = "ok"
            /\ p_ast = <<ExpressionS(
                   IF GroupsRight(o1, o2)
                   THEN BinaryE(a, o1.op, BinaryE(b, o2.op, c))
                   ELSE BinaryE(BinaryE(a, o1.op, b), o2.op, c))>>

\* `x ^ y ^ z`-like input (equal precedence, right-associative) has been
\* parsed into a tree.
C1_Witness ==
    /\ p_st = "ok"
    /\ IsTwoOperatorExpr(tokens)
    /\ tokens[2].lexeme = "^"
    /\ tokens[4].lexeme = "^"
    /\ p_ast[1].expr.right.node = "Binary"

\* C2: parse terminates: it never runs forever, and when it returns the
\* statement sequence no token remains.
C2_ParseTerminates ==
    Parsed =>
        /\ p_st # "diverge"
        /\ p_st = "ok" => remaining(tokens, p_ps) = 0

\* The input is `lhs OP = rhs` and a line terminator, OP compoundable.
IsCompoundStatement(toks) ==
    /\ Len(toks) = 5
    /\ toks[1].type = "Identifier"
    /\ toks[2].type = "Operator" /\ IsCompoundable(toks[2].lexeme)
    /\ toks[3] = Tok("Symbol", "=", toks[3].col)
    /\ IsAtomToken(toks[4])
    /\ toks[5].type = "EOL"

\* C3: `lhs OP= rhs` parses to the assignment lhs = (lhs OP rhs).
C3_CompoundAssignment ==
    (Parsed /\ IsCompoundStatement(tokens)) =>
        LET lhs == AtomNode(tokens[1])
            rhs == AtomNode(tokens[4])
            op == OperatorFromStr(tokens[2].lexeme).op
        IN  /\ p_st = "ok"
            /\ p_ast = <<AssignmentS(lhs, BinaryE(lhs, op, rhs))>>

\* The input is IndentProgram(i1, i2, i3, i4); the four indents are read
\* off the first token of lines 2..5.
IsIndentProgram(toks) ==
    /\ Len(toks) = 14
    /\ toks = IndentProgram(toks[5].col - 1, toks[7].col - 1,
                            toks[9].col - 1, toks[13].col - 1)

InconsistentIndent ==
    p_st = "err" /\ p_err = "found inconsistently indented token"

\* C9: once the first block has fixed the unit, a later statement inside a
\* block whose indentation is no multiple of the unit fails the parse
\* with the inconsistent-indentation error.
C9_LaterStatementIndent ==
    (Parsed /\ IsIndentProgram(tokens)) =>
        LET unit == tokens[5].col - 1
            later == tokens[7].col - 1
        IN  (unit > 0 /\ later > unit /\ later % unit # 0)
                => InconsistentIndent

\* C10: with the unit set, an accepted block has an indent that is a
\* non-zero multiple of the unit, and a block at indent 0 or at a
\* non-multiple fails with the inconsistent-indentation error.
C10_BlockIndent ==
    (Parsed /\ IsIndentProgram(tokens)) =>
        LET unit == tokens[5].col - 1
            block == tokens[13].col - 1
        IN  unit > 0 =>
                /\ p_st = "ok" => (block > 0 /\ block % unit = 0)
                /\ (block = 0 \/ block % unit # 0) => InconsistentIndent

\* The token sequence with the lexeme of token i replaced.
Retoken(toks, i, lexeme) ==
    [toks EXCEPT ![i] = Tok(TokenTypeOf(lexeme), lexeme, @.col)]

\* The input is `loop N: ...` with a one-token count.
IsCountedLoop(toks) ==
    /\ Len(toks) >= 4
    /\ toks[1] = Tok("Keyword", "loop", 1)
    /\ IsAtomToken(toks[2])
    /\ toks[3].lexeme = ":"

\* C11: `loop N: body` parses to a Block of two statements: the
\* declaration of a hidden counter initialised to Int 0, and a While whose
\* condition is `counter < N` and whose body is the body statements (those
\* `while N: body` parses to) followed by `counter = counter + 1`, the
\* counter being one name in all three places.
C11_CountedLoop ==
    (Parsed /\ IsCountedLoop(tokens)) =>
        \E w \in {parse(Retoken(tokens, 1, "while"))} :
            /\ p_st = w.st
            /\ p_st = "ok" =>
                /\ Len(p_ast) >= 1 /\ Len(w.val) >= 1
                /\ Tail(p_ast) = Tail(w.val)
                /\ p_ast[1].node = "Block"
                /\ Len(p_ast[1].body) = 2
                /\ p_ast[1].body[1].node = "Declaration"
                /\ p_ast[1].body[1].init = <<IntE(0)>>
                /\ LET counter == IdentifierE(p_ast[1].body[1].name)
                   IN  p_ast[1].body[2] =
                           WhileS(BinaryE(counter, "Lt", AtomNode(tokens[2])),
                                  Append(w.val[1].body,
                                         AssignmentS(counter,
                                             BinaryE(counter, "Add", IntE(1)))))

\* A counted loop with a block of two statements has been parsed.
C11_Witness ==
    /\ p_st = "ok"
    /\ IsCountedLoop(tokens)
    /\ p_ast[1].node = "Block"
    /\ Len(p_ast[1].body[2].body) = 3

\* The index of the first token of toks from position i on with this
\* lexeme (Len(toks) + 1 if there is none).
RECURSIVE FirstLexeme(_, _, _)
FirstLexeme(toks, lexeme, i) ==
    IF i > Len(toks) \/ toks[i].lexeme = lexeme THEN i
    ELSE FirstLexeme(toks, lexeme, i + 1)

ShiftCols(toks, n) == [i \in 1..Len(toks) |-> [toks[i] EXCEPT !.col = @ + n]]

\* The input is `unless COND: ...`.
IsUnless(toks) ==
    /\ Len(toks) >= 4
    /\ toks[1] = Tok("Keyword", "unless", 1)
    /\ FirstLexeme(toks, ":", 1) < FirstLexeme(toks, EOLLexeme, 1)

\* `unless COND: rest` rewritten to `if (not COND): rest`.
IfNot(toks) ==
    LET colon == FirstLexeme(toks, ":", 1)
        eol == FirstLexeme(toks, EOLLexeme, 1)
    IN  <<Tok("Keyword", "if", 1), Tok("Symbol", "(", 2),
          Tok("Operator", "not", 3)>>
        \o ShiftCols(SubSeq(toks, 2, colon - 1), 2)
        \o <<Tok("Symbol", ")", toks[colon].col + 2)>>
        \o ShiftCols(SubSeq(toks, colon, eol), 3)
        \o SubSeq(toks, eol + 1, Len(toks))

\* C12: `unless COND: body ...` parses to the statement
\* `if (not COND): body ...` parses to: the conditional `if COND: body ...`
\* parses to with its condition wrapped in Not, body and clause list the
\* same.
C12_UnlessIsIfNot ==
    (Parsed /\ IsUnless(tokens)) =>
        \E r \in {parse(IfNot(tokens))} :
        \E plain \in {parse(Retoken(tokens, 1, "if"))} :
            /\ (p_st = "ok") = (r.st = "ok")
            /\ p_st = "ok" =>
                /\ p_ast = r.val
                /\ plain.st = "ok"
                /\ Len(p_ast) = 1
                /\ p_ast[1].node = "If"
                /\ p_ast[1] = [plain.val[1] EXCEPT !.cond = NotE(@)]

\* An `unless` with a two-clause chain has been parsed.
C12_Witness ==
    /\ p_st = "ok"
    /\ IsUnless(tokens)
    /\ p_ast[1].node = "If"
    /\ p_ast[1].cond.node = "Not"
    /\ Len(p_ast[1].else_) = 2

-----------------------------------------------------------------------------
(* Inputs of the Visitor *)

\* 1 + "a"
IntPlusStr == BinaryE(IntE(1), "Add", StrE("'a'"))

VisitLeaves ==
    {BreakS,
     ReturnS(<<>>),
     ReturnS(<<IntE(1)>>),
     ReturnS(<<IdentifierE("y")>>),
     ExpressionS(IntE(1)),
     ExpressionS(IntPlusStr),
     ExpressionS(CallE(IdentifierE("f"), <<IntPlusStr>>)),
     ExpressionS(NilE),
     ExpressionS(EmptyE),
     ExpressionS(WithE(IdentifierE("x"), IntE(1))),
     DeclarationS("x", <<IntE(1)>>),
     DeclarationS("x", <<IntPlusStr>>),
     DeclarationS("g", <<IntE(1)>>),
     AssignmentS(IdentifierE("x"), IntPlusStr),
     AssignmentS(IdentifierE("g"), IntE(1))}

\* The statements that hold `body` one level down.
VisitContainers(body) ==
    {FunctionS("f", <<"a">>, body),
     WhileS(BoolE(TRUE), body),
     IfS(BoolE(TRUE), body, <<>>),
     IfS(BoolE(TRUE), <<>>, <<Clause(<<>>, body)>>),
     IfS(BoolE(TRUE), <<>>, <<Clause(<<BoolE(FALSE)>>, body)>>),
     BlockS(body),
     DeclarationS("h", <<AnonFunctionE("<anon-fn $0>", <<>>, body)>>)}

RECURSIVE VisitStatements(_)
VisitStatements(depth) ==
    IF depth = 0 THEN VisitLeaves
    ELSE VisitLeaves
         \cup UNION {VisitContainers(<<s>>) : s \in VisitStatements(depth - 1)}

\* What a program may hold before the statement of interest.
VisitPrefixes ==
    {ExpressionS(IntE(1)),
     DeclarationS("x", <<IntE(1)>>),
     FunctionS("f", <<"a">>, <<>>)}

\* let x = n, and x = n
LetX(n) == DeclarationS("x", <<IntE(n)>>)
SetX(n) == AssignmentS(IdentifierE("x"), IntE(n))

\* Declarations and assignments of x at one nesting level and across
\* levels.
ResolutionInputs ==
    {<<SetX(2)>>,
     <<LetX(1), SetX(2)>>,
     <<DeclarationS("x", <<>>), SetX(2)>>,
     <<LetX(1), ExpressionS(IntE(1)), SetX(2)>>,
     <<WhileS(BoolE(TRUE), <<LetX(1)>>), SetX(2)>>,
     <<FunctionS("f", <<"x">>, <<SetX(2)>>)>>}
    \cup {<<c>> : c \in VisitContainers(<<SetX(2)>>)}
    \cup {<<c>> : c \in VisitContainers(<<LetX(1), SetX(2)>>)}
    \cup {<<LetX(1), c>> : c \in VisitContainers(<<SetX(2)>>)}
    \cup {<<LetX(1), c>> : c \in VisitContainers(<<LetX(2), SetX(3)>>)}

\* Conditionals with every shape of clause list (none, else, elif, elif
\* and else, two elifs), alone and after a statement that has emitted.
ElseChains ==
    LET one == <<ExpressionS(IntE(1))>>
    IN  {<<>>,
         <<Clause(<<>>, one)>>,
         <<Clause(<<BoolE(FALSE)>>, one)>>,
         <<Clause(<<BoolE(FALSE)>>, one), Clause(<<>>, one)>>,
         <<Clause(<<BoolE(FALSE)>>, one), Clause(<<BoolE(TRUE)>>, one)>>}

ChainInputs ==
    {<<IfS(BoolE(TRUE), <<ExpressionS(IntE(2))>>, c)>> : c \in ElseChains}
    \cup {<<ExpressionS(IntE(3)), IfS(BoolE(TRUE), <<ExpressionS(IntE(2))>>, c)>> :
              c \in ElseChains}

\* f() and f(1)
CallF(args) == CallE(IdentifierE("f"), args)

\* After `fun f(a):`, calls of f with no argument and with one, as an
\* expression statement, as a declaration initializer and inside another
\* expression (operand, argument, array element).
ArityInputs ==
    {<<FunctionS("f", <<"a">>, <<>>), s>> :
        s \in UNION {{ExpressionS(e), DeclarationS("y", <<e>>)} :
                  e \in {CallF(<<>>), CallF(<<IntE(1)>>),
                         BinaryE(CallF(<<>>), "Add", IntE(1)),
                         CallF(<<CallF(<<>>)>>),
                         ArrayE(<<CallF(<<>>)>>)}}}

\* Operands of type Any (the parameter a), Bool, Int and Str.
LogicOperands == {IdentifierE("a"), BoolE(TRUE), IntE(1), StrE("s")}

\* `let z = l and r` and `let z = l or r` in the body of `fun f(a):`, for
\* every pair of operand types.
LogicInputs ==
    {<<FunctionS("f", <<"a">>, <<DeclarationS("z", <<BinaryE(l, op, r)>>)>>)>> :
        l \in LogicOperands, r \in LogicOperands, op \in {"And", "Or"}}

\* `let f = fun(p1, ..., pN): body` followed by a call of f with M
\* arguments, for N and M from 0 to 2.
ClosureParams == {<<>>, <<"a">>, <<"a", "b">>}
ClosureArgs == {<<>>, <<IntE(1)>>, <<IntE(1), IntE(2)>>}

LetClosure(params) ==
    DeclarationS("f", <<AnonFunctionE("<anon-fn $0>", params, <<>>)>>)

ClosureInputs ==
    {<<LetClosure(ps), ExpressionS(CallF(as))>> :
        ps \in ClosureParams, as \in ClosureArgs}

VisitorInputs ==
    {<<s>> : s \in VisitStatements(MaxDepth)}
    \cup {<<p, s>> : p \in VisitPrefixes, s \in VisitStatements(MaxDepth)}
    \cup ResolutionInputs
    \cup ChainInputs
    \cup ArityInputs
    \cup LogicInputs
    \cup ClosureInputs

GlobalTypes == {TypeNode("Any"), TypeNode("Int")}

-----------------------------------------------------------------------------
(* Specification of the Visitor: Visitor::new(source), then set_global,    *)
(* and either one visit of the whole program or one visit_statement per    *)
(* statement.  No call is made on a Visitor after one has failed.          *)

InitVisit ==
    /\ tokens = <<>>
    /\ p_st = "ready"
    /\ p_err = ""
    /\ p_ast = <<>>
    /\ p_ps = NewParser
    /\ p_entry = NewParser
    /\ ast \in VisitorInputs
    /\ v = NewVisitor
    /\ v_entry = NoCall
    /\ v_calls = 0

SetGlobal ==
    /\ v.st = "new"
    /\ v_entry = NoCall
    /\ symtab_fetch(v.symtab, "g") = <<>>
    /\ \E t \in GlobalTypes : v' = set_global(v, "g", t)
    /\ UNCHANGED <<parserVars, ast, v_entry, v_calls>>

Visit ==
    /\ v.st = "new"
    /\ v_calls = 0
    /\ v_entry' = [call |-> "visit", vs |-> v]
    /\ v' = VisitorCall("visit", <<[v EXCEPT !.st = "ok"], ast>>)
    /\ v_calls' = Len(ast)
    /\ UNCHANGED <<parserVars, ast>>

VisitStatement ==
    /\ v.st \in {"new", "ok"}
    /\ v_entry.call # "visit"
    /\ v_calls < Len(ast)
    /\ v_entry' = [call |-> "visit_statement", vs |-> v]
    /\ v' = VisitorCall("visit_statement",
                      <<[v EXCEPT !.st = "ok"], ast[v_calls + 1], <<>> >>)
    /\ v_calls' = v_calls + 1
    /\ UNCHANGED <<parserVars, ast>>

NextVisit == SetGlobal \/ Visit \/ VisitStatement

SpecVisit == InitVisit /\ [][NextVisit]_vars

-----------------------------------------------------------------------------
(* Properties of the Visitor *)

\* The last call was visit_statement, on a statement of one of these kinds.
VisitedKind(kinds) ==
    v_entry.call = "visit_statement" /\ ast[v_calls].node \in kinds

\* C4: when visit_statement on a function definition, a while-loop or a
\* conditional returns an error raised in its body or in an else/elif
\* clause, the active builder is the one that was active on entry.  (The
\* conditions of the inputs are Bool literals, so every error of such a
\* statement is raised in a body or clause.)
C4_BuilderRestored ==
    (VisitedKind({"Function", "While", "If"}) /\ v.st = "err")
        => v.builder = v_entry.vs.builder

\* C5: after visit or visit_statement returns an error, the number of
\* scope frames, the lexical depth, the function depth and the inside
\* marker stack equal their values before the call.
C5_CountersRestored ==
    (v_entry.call # "none" /\ v.st = "err") =>
        /\ Len(v.symtab) = Len(v_entry.vs.symtab)
        /\ v.depth = v_entry.vs.depth
        /\ v.function_depth = v_entry.vs.function_depth
        /\ v.inside = v_entry.vs.inside

\* C6: every call of parse and every call of visit or visit_statement
\* ends by returning success or an error value, never by aborting.
C6_NoAbort == p_st # "panic" /\ v.st # "panic"

InLoopBody(ctx) == "While" \in Range(ctx)
InFunctionBody(ctx) == Range(ctx) \cap {"Function", "AnonFunction"} # {}

BreakOutside == "you need a loop to break out of here"
ReturnOutside == "can't return outside of function"

\* C7: a break is rejected exactly when it does not stand in the body of
\* a while-loop being visited, a return exactly when it does not stand in
\* the body of a function or anonymous function being visited; otherwise
\* the statement is accepted and appends its operation to the active
\* builder (for a return with a value: provided the value compiles).
C7_BreakReturnScope ==
    v.st \in {"ok", "err", "panic"} =>
        \A i \in 1..Len(v.log) :
            LET e == v.log[i]
            IN  /\ e.statement.node = "Break" =>
                     IF InLoopBody(e.ctx)
                     THEN e.st = "ok" /\ e.after = Append(e.before, IrBreak)
                     ELSE e.st = "err" /\ e.err = BreakOutside
                          /\ e.after = e.before
                /\ e.statement.node = "Return" =>
                     IF InFunctionBody(e.ctx)
                     THEN /\ e.err # ReturnOutside
                          /\ e.statement.ret \in {<<>>, <<IntE(1)>>}
                                 => e.st = "ok"
                          /\ e.st = "ok" =>
                                 /\ Len(e.after) = Len(e.before) + 1
                                 /\ SubSeq(e.after, 1, Len(e.before)) = e.before
                                 /\ Last(e.after).ir = "Return"
                     ELSE e.st = "err" /\ e.err = ReturnOutside
                          /\ e.after = e.before

\* A break in a function in a while-loop body was accepted.
C7_Witness ==
    /\ v.st = "ok"
    /\ \E i \in 1..Len(v.log) :
           /\ v.log[i].statement = BreakS
           /\ v.log[i].ctx = <<"While", "Function">>
           /\ v.log[i].st = "ok"

\* The four places of `1 + "a"`.
IntPlusStrStatements ==
    {ExpressionS(IntPlusStr),
     DeclarationS("x", <<IntPlusStr>>),
     AssignmentS(IdentifierE("x"), IntPlusStr),
     ExpressionS(CallE(IdentifierE("f"), <<IntPlusStr>>))}

\* C8: `1 + "a"` is rejected with the operand-type error as an expression
\* statement, as a declaration initializer, as an assignment value and as
\* a call argument.
C8_IntPlusStrRejected ==
    (/\ v_entry.call = "visit_statement"
     /\ ast[v_calls] \in IntPlusStrStatements
     /\ (ast[v_calls].node = "Assignment"
            => symtab_fetch(v_entry.vs.symtab, "x") # <<>>)
     /\ (ast[v_calls] = ExpressionS(CallE(IdentifierE("f"), <<IntPlusStr>>))
            => symtab_fetch(v_entry.vs.symtab, "f") # <<>>))
        => v.st = "err" /\ v.err = OperandError

\* The number of tokens of toks with this lexeme.
RECURSIVE CountLexeme(_, _, _)
CountLexeme(toks, lexeme, i) ==
    IF i > Len(toks) THEN 0
    ELSE (IF toks[i].lexeme = lexeme THEN 1 ELSE 0)
             + CountLexeme(toks, lexeme, i + 1)

\* The input opens more parentheses than it closes: it ends inside one.
EndsInsideParen(toks) ==
    CountLexeme(toks, "(", 1) > CountLexeme(toks, ")", 1)

\* C15: a required token is never satisfied by reading the last token a
\* second time once the cursor has passed it: an input that ends inside an
\* open parenthesis, where the closing `)` is required past the last
\* token, is not accepted.
C15_PrematureEnd ==
    (Parsed /\ EndsInsideParen(tokens)) => p_st # "ok"

NotImplemented == "constants are not implemented yet"

\* The input starts with the keyword `const`.
IsConst(toks) == Len(toks) >= 1 /\ toks[1] = Tok("Keyword", "const", 1)

\* C14: a program that uses `const NAME = expr` or `const fun ...` never
\* compiles: once parsed and visited it has failed with the
\* not-yet-supported error.
C14_ConstRejected ==
    (IsConst(tokens) /\ p_st = "ok" /\ v # NoVisitor) =>
        v.st = "err" /\ v.err = NotImplemented

IsPrefix(a, b) == Len(a) <= Len(b) /\ SubSeq(b, 1, Len(a)) = a

AssignMissing == "can't assign non-existent"

\* Event e is an assignment of an integer literal to the name x.
IsSetX(e) ==
    /\ e.statement.node = "Assignment"
    /\ e.statement.target = IdentifierE("x")
    /\ e.statement.value.node = "Int"

\* Event d is a declaration of x that succeeded, and event e stands later
\* in the same body.
DeclaredBefore(d, e) ==
    /\ d.statement.node = "Declaration"
    /\ d.statement.name = "x"
    /\ d.st = "ok"
    /\ d.ctx = e.ctx
    /\ IsPrefix(d.after, e.before)

\* C13: an assignment `x = e` fails with the unresolved-identifier error
\* exactly when the scope table holds no x; after `let x` at the same
\* nesting level it succeeds and the reference it emits is the binding
\* (name, depth, function depth) the declaration bound.
C13_AssignmentResolution ==
    \A j \in 1..Len(v.log) :
        LET e == v.log[j]
        IN  IsSetX(e) =>
              /\ (e.st = "err" /\ e.err = AssignMissing)
                     <=> symtab_fetch(e.scope, "x") = <<>>
              /\ \A i \in 1..(j - 1) :
                     DeclaredBefore(v.log[i], e) =>
                         /\ e.st = "ok"
                         /\ Last(e.after).ir = "Mutate"
                         /\ Last(e.after).lhs = IrVar(Last(v.log[i].after).var)

\* The number of scope frames pushed on symtab since the visitor was created.
PushedFrames(symtab) == Len(symtab) - Len(SymTabNew)

\* C16: at every statement the visitor enters, at top level inside visit
\* and inside loop and conditional bodies alike, the lexical depth counter
\* equals the number of scope frames pushed on the scope table.
C16_DepthIsFrames ==
    \A i \in 1..Len(v.log) : v.log[i].depth = PushedFrames(v.log[i].scope)

\* C17: after visit_statement succeeds on a conditional, whatever its
\* elif/else chain, the active builder holds the operations it held before
\* the statement, in the same order, followed by one conditional fragment
\* and nothing else.
C17_ConditionalAppendsOne ==
    \A i \in 1..Len(v.log) :
        LET e == v.log[i]
        IN  (e.statement.node = "If" /\ e.st = "ok") =>
                /\ Len(e.after) = Len(e.before) + 1
                /\ Front(e.after) = e.before
                /\ Last(e.after).ir = "If"

\* C18: a conditional whose clause list starts with an elif is emitted as
\* a fragment whose else branch is the nested conditional built from that
\* elif (its condition, its body, the remaining clauses as its chain); the
\* else branch is nil only when the clause list is empty.
C18_ElifIsElseBranch ==
    \A i \in 1..Len(v.log) :
        LET e == v.log[i]
            else_ == e.statement.else_
        IN  (e.statement.node = "If" /\ e.st = "ok") =>
                /\ (else_ # <<>> /\ else_[1].cond # <<>>) =>
                       \E j \in 1..(i - 1) :
                           /\ v.log[j].statement =
                                  IfS(else_[1].cond[1], else_[1].body, Tail(else_))
                           /\ v.log[j].st = "ok"
                           /\ Last(e.after).else_ = Last(v.log[j].after)
                /\ Last(e.after).else_ = IrNil <=> else_ = <<>>

WrongArity == "wrong amount of arguments"

\* Expression e holds a call of a name that scope gives a function type of
\* an arity other than the number of arguments, at its top or nested.
RECURSIVE MeetsWrongArity(_, _)
MeetsWrongArity(scope, e) ==
    CASE e.node = "Call" ->
             \/ /\ e.callee.node = "Identifier"
                /\ LET t == symtab_fetch(scope, e.callee.name)
                   IN  /\ t # <<>>
                       /\ t[1].node.tag = "Func"
                       /\ t[1].node.arity # Len(e.args)
             \/ \E i \in 1..Len(e.args) : MeetsWrongArity(scope, e.args[i])
      [] e.node = "Binary" ->
             MeetsWrongArity(scope, e.left) \/ MeetsWrongArity(scope, e.right)
      [] e.node = "Array" ->
             \E i \in 1..Len(e.content) : MeetsWrongArity(scope, e.content[i])
      [] OTHER -> FALSE

\* C19: a call whose callee has a function type of arity N and whose
\* argument count differs from N is rejected with the wrong-arity error
\* wherever it stands: as an expression statement, as a declaration
\* initializer, or nested inside another expression.
C19_WrongArityRejected ==
    \A i \in 1..Len(v.log) :
        LET e == v.log[i]
        IN  /\ (e.statement.node = "Expression"
                /\ MeetsWrongArity(e.scope, e.statement.expr))
                   => e.st = "err" /\ e.err = WrongArity
            /\ (e.statement.node = "Declaration" /\ e.statement.init # <<>>
                /\ MeetsWrongArity(e.scope, e.statement.init[1]))
                   => e.st = "err" /\ e.err = WrongArity

\* The type type_expression gives e under the scope table of event ev.
TypeAt(ev, e) == type_expression([NewVisitor EXCEPT !.symtab = ev.scope], e)

\* C20: type_expression accepts `a and b` / `a or b` exactly when both
\* operand types are Bool or at least one of the two is Any; every other
\* pair of operand types gives the operand-type error.
C20_LogicOperands ==
    \A i \in 1..Len(v.log) :
        LET ev == v.log[i]
            e == ev.statement.init[1]
            a == TypeAt(ev, e.left)
            b == TypeAt(ev, e.right)
            t == TypeAt(ev, e)
        IN  (/\ ev.statement.node = "Declaration"
             /\ ev.statement.init # <<>>
             /\ e.node = "Binary"
             /\ e.op \in {"And", "Or"}
             /\ a.st = "ok"
             /\ b.st = "ok") =>
                IF \/ a.val.node = TypeNode("Bool") /\ b.val.node = TypeNode("Bool")
                   \/ TypeNode("Any") \in {a.val.node, b.val.node}
                THEN t.st = "ok" /\ ev.st = "ok"
                ELSE /\ t = TErr(OperandError)
                     /\ ev.st = "err"
                     /\ ev.err = OperandError

\* C21: a declaration `let x` or `let x = e` that succeeds installs in the
\* scope table and emits a binding located at the current (lexical depth,
\* function depth) pair, also when an x is already visible from an
\* enclosing scope.
C21_DeclarationBindsHere ==
    \A i \in 1..Len(v.log) :
        LET e == v.log[i]
            here == BindingLocal(e.statement.name, e.depth, e.function_depth)
        IN  (e.statement.node = "Declaration" /\ e.st = "ok") =>
                /\ Last(e.after).ir = "Bind"
                /\ Last(e.after).var = here
                /\ symtab_fetch(e.exit.symtab, e.statement.name) # <<>>
                /\ symtab_fetch(e.exit.symtab, e.statement.name)[1].meta = <<here>>

C23_CallArguments ==
    \A a \in ArgumentLists :
        LET call == CallE(IdentifierE("f"), a.args)
        IN  /\ (Parsed /\ tokens = CallLine(a)) =>
                   p_st = "ok" /\ p_ast = <<ExpressionS(call)>>
            /\ (Parsed /\ tokens = CallCallLine(a)) =>
                   /\ p_st = "ok"
                   /\ p_ast = <<ExpressionS(CallE(call, <<IntE(1)>>))>>

\* The input opens more brackets of one kind than it closes.
EndsInsideBracket(toks) ==
    \/ CountLexeme(toks, "[", 1) > CountLexeme(toks, "]", 1)
    \/ CountLexeme(toks, "{", 1) > CountLexeme(toks, "}", 1)

\* C24: parse_block_of hands its sub-parser exactly the tokens between the
\* opening delimiter and its matching closing delimiter, nested delimiters
\* of the same kind counted, so a balanced literal parses to the elements
\* written; and it returns a syntax error when no matching closing
\* delimiter exists: an unbalanced bracket is never accepted.
C24_BlockSpan ==
    /\ \A b \in BracketLiterals :
           (Parsed /\ tokens \in {Word(b.lexemes), Line(0, b.lexemes)}) =>
               p_st = "ok" /\ p_ast = <<ExpressionS(b.expr)>>
    /\ (Parsed /\ tokens \in BracketInputs /\ EndsInsideBracket(tokens)) =>
           p_st = "err"

\* C25: parse_atom consumes the token of a literal (integer, float,
\* string, boolean, nil) or identifier it returns, so `let x = ATOM` and
\* `ATOM`, each followed by a line terminator, parse to that node with
\* every token consumed.
C25_AtomConsumed ==
    \A a \in AtomTokens :
        /\ (Parsed /\ tokens = LetAtomLine(a)) =>
               /\ p_st = "ok"
               /\ p_ast = <<DeclarationS("x", <<a.expr>>)>>
               /\ remaining(tokens, p_ps) = 0
        /\ (Parsed /\ tokens = AtomLine(a)) =>
               /\ p_st = "ok"
               /\ p_ast = <<ExpressionS(a.expr)>>
               /\ remaining(tokens, p_ps) = 0

\* C26: after visit_statement returns success for any statement, the
\* lexical depth, the function depth, the marker stack and the number of
\* pushed scope frames equal their values on entry.
C26_CountersRestoredOnSuccess ==
    \A i \in 1..Len(v.log) :
        LET e == v.log[i]
        IN  e.st = "ok" =>
                /\ e.exit.depth = e.depth
                /\ e.exit.function_depth = e.function_depth
                /\ e.exit.inside = e.inside
                /\ PushedFrames(e.exit.symtab) = PushedFrames(e.scope)

\* A function whose body holds a conditional with a clause list was visited
\* with success, and so was a loop.
C26_Witness ==
    /\ v.st = "ok"
    /\ \E i \in 1..Len(v.log) :
           /\ v.log[i].statement.node = "Function"
           /\ v.log[i].st = "ok"
           /\ \E j \in 1..(i - 1) :
                  /\ v.log[j].statement.node = "If"
                  /\ v.log[j].statement.else_ # <<>>
                  /\ v.log[j].ctx = <<"Function">>
                  /\ v.log[j].st = "ok"
                  /\ v.log[j].depth = 1
                  /\ v.log[j].exit.depth = 1
                  /\ v.log[j].exit.inside = <<"Function">>

\* C27: a `break` directly in a function or anonymous-function body, with
\* no while-loop between the function and the break, is rejected, also
\* when the function definition itself stands in a while-loop body.
C27_BreakInFunctionRejected ==
    \A i \in 1..Len(v.log) :
        LET e == v.log[i]
        IN  (/\ e.statement = BreakS
             /\ e.ctx # <<>>
             /\ Last(e.ctx) \in {"Function", "AnonFunction"}) =>
                e.st = "err" /\ e.err = BreakOutside

\* C28: type_expression gives an anonymous function of N parameters the
\* type Function-of-arity-N, so after `let f = fun(p1, ..., pN): body` the
\* name f has that type and a call of f with N arguments as an expression
\* statement is accepted.
C28_ClosureType ==
    \A i \in 1..Len(v.log) :
        LET d == v.log[i]
            fun == d.statement.init[1]
        IN  (/\ d.statement.node = "Declaration"
             /\ d.statement.init # <<>>
             /\ fun.node = "AnonFunction"
             /\ d.st = "ok") =>
                /\ TypeAt(d, fun) = TOk(TypeFrom(FuncNode(Len(fun.params))))
                /\ symtab_fetch(d.exit.symtab, d.statement.name)[1].node
                       = FuncNode(Len(fun.params))
                /\ \A j \in (i + 1)..Len(v.log) :
                       LET e == v.log[j]
                       IN  (/\ e.statement.node = "Expression"
                            /\ e.statement.expr.node = "Call"
                            /\ e.statement.expr.callee
                                   = IdentifierE(d.statement.name)
                            /\ Len(e.statement.expr.args) = Len(fun.params)
                            /\ e.ctx = d.ctx
                            /\ IsPrefix(d.after, e.before)) => e.st = "ok"

\* The node of unary operator u over operand e.
UnaryE(u, e) == IF u = "-" THEN NegE(e) ELSE NotE(e)

\* a OP b
BinaryOf(a, o, b) ==
    BinaryE(IdentifierE(a), OperatorFromStr(o).op, IdentifierE(b))

\* toks is a line `U a OP b`, and toks is a line `x OP1 U a OP2 b`.
IsUnaryLine(toks) ==
    /\ Len(toks) = Len(UnaryLine("-", "+"))
    /\ toks[1].lexeme \in UnaryLexemes
    /\ toks[3].lexeme \in BinaryLexemes
    /\ toks = UnaryLine(toks[1].lexeme, toks[3].lexeme)

IsOperandUnaryLine(toks) ==
    /\ Len(toks) = Len(OperandUnaryLine("+", "-", "+"))
    /\ toks[2].lexeme \in BinaryLexemes
    /\ toks[3].lexeme \in UnaryLexemes
    /\ toks[5].lexeme \in BinaryLexemes
    /\ toks = OperandUnaryLine(toks[2].lexeme, toks[3].lexeme, toks[5].lexeme)

\* C29: the operand of a unary `-` or `not` is the whole expression that
\* follows it, whatever the precedence of the binary operators in it:
\* `U a OP b` parses as U(a OP b), and `x OP1 U a OP2 b` parses as
\* x OP1 U(a OP2 b).
C29_UnaryOperand ==
    /\ (Parsed /\ IsUnaryLine(tokens)) =>
           /\ p_st = "ok"
           /\ p_ast = <<ExpressionS(
                          UnaryE(tokens[1].lexeme,
                                 BinaryOf("a", tokens[3].lexeme, "b")))>>
    /\ (Parsed /\ IsOperandUnaryLine(tokens)) =>
           /\ p_st = "ok"
           /\ p_ast = <<ExpressionS(
                          BinaryE(IdentifierE("x"),
                                  OperatorFromStr(tokens[2].lexeme).op,
                                  UnaryE(tokens[3].lexeme,
                                         BinaryOf("a", tokens[5].lexeme,
                                                  "b"))))>>

\* `x * -a + b` was parsed as x * Neg(a + b).
C29_Witness ==
    /\ tokens = OperandUnaryLine("*", "-", "+")
    /\ p_st = "ok"
    /\ p_ast = <<ExpressionS(BinaryE(IdentifierE("x"), "Mul",
                                     NegE(BinaryOf("a", "+", "b"))))>>

\* Statement x is what `loop N` is turned into; its first statement
\* declares the hidden counter.
IsCountedLoopNode(x) ==
    /\ x.node = "Block"
    /\ Len(x.body) = 2
    /\ x.body[1].node = "Declaration"
    /\ x.body[1].init = <<IntE(0)>>
    /\ x.body[2].node = "While"
    /\ x.body[2].cond.node = "Binary"
    /\ x.body[2].cond.op = "Lt"
    /\ x.body[2].cond.left = IdentifierE(x.body[1].name)

RECURSIVE Flatten(_)
Flatten(seqs) == IF seqs = <<>> THEN <<>> ELSE Head(seqs) \o Flatten(Tail(seqs))

\* The statements and expressions that statement or expression x holds.
Children(x) ==
    CASE x.node = "Expression" -> <<x.expr>>
      [] x.node = "Declaration" -> x.init
      [] x.node = "Assignment" -> <<x.target, x.value>>
      [] x.node \in {"Block", "Interface", "Function", "AnonFunction"} -> x.body
      [] x.node = "Return" -> x.ret
      [] x.node = "While" -> <<x.cond>> \o x.body
      [] x.node = "If" ->
             <<x.cond>> \o x.body
                 \o Flatten([i \in 1..Len(x.else_) |->
                                x.else_[i].cond \o x.else_[i].body])
      [] x.node = "ConstFunction" -> <<x.fun>>
      [] x.node = "Binary" -> <<x.left, x.right>>
      [] x.node = "Call" -> <<x.callee>> \o x.args
      [] x.node = "Array" -> x.content
      [] x.node = "Dict" -> [i \in 1..Len(x.pairs) |-> x.pairs[i].value]
      [] x.node = "With" -> <<x.expr, x.with>>
      [] x.node \in {"Neg", "Not"} -> <<x.expr>>
      [] OTHER -> <<>>

\* The hidden counter names of the `loop N` statements in x, and in the
\* nodes of a sequence, in source order.
RECURSIVE CounterNames(_)
RECURSIVE CounterNamesOf(_)
CounterNames(x) ==
    (IF IsCountedLoopNode(x) THEN <<x.body[1].name>> ELSE <<>>)
        \o CounterNamesOf(Children(x))

CounterNamesOf(xs) ==
    IF xs = <<>> THEN <<>>
    ELSE CounterNames(Head(xs)) \o CounterNamesOf(Tail(xs))

\* C30: no two distinct `loop N` statements produced by one call to parse
\* share a hidden counter name, be they siblings, nested in one another,
\* or parsed by a bracket sub-parser.
C30_CounterNamesDistinct ==
    p_st = "ok" =>
        LET names == CounterNamesOf(p_ast)
        IN  \A i, j \in 1..Len(names) : i # j => names[i] # names[j]

====
